---- MODULE Spec2Model ----
(***************************************************************************)
(* Model of the review pipeline of AI-Agent-UX-Analyzer:                   *)
(*   DataProcessor  (src/src/data_processing/data_processor.py)            *)
(*   ClusterAnalyzer (src/src/clustering/cluster_analyzer.py)              *)
(*   LLMAnalyzer     (src/src/llm_analysis/llm_analyzer.py)                *)
(* Texts are sequences of one-character strings.  Python lists are         *)
(* sequences, Python dicts are records, list indices are 0-based as in     *)
(* the source (element idx of a list is position idx + 1 of the sequence). *)
(***************************************************************************)
EXTENDS Integers, Sequences, FiniteSets, TLC

VARIABLES
    text,           \* argument of a direct clean_text call
    once,           \* clean_text(text)
    twice,          \* clean_text(clean_text(text))
    nltk,           \* linguistic toolkit: "full", "basic" or "broken"
    textblob,       \* sentiment library: "available", "unavailable" or "failing"
    llm,            \* the behaviours the external model may show when invoked
    config,         \* the configuration values the core reads
    batch,          \* the list of raw reviews handed to the DataProcessor
    cleaned,        \* result of a direct clean_reviews(batch) call
    extracted,      \* result of a direct extract_features(batch) call
    processed_data, \* result of process_reviews(batch)
    analysis,       \* outcome of ClusterAnalyzer.analyze(processed_data)
    reanalysis,     \* outcome of a second analyze(processed_data) call
    recommendations, \* outcome of LLMAnalyzer.generate_recommendations
    request,        \* category, limit and store behaviour of a discover_apps call
    discovered,     \* outcome of GooglePlayDiscoverer.discover_apps
    displayed,      \* the groups display_cluster_details shows
    results,        \* outcome of UXAnalyzer.analyze_category
    pc              \* position of the caller of the DataProcessor / ClusterAnalyzer

vars == <<text, once, twice, nltk, textblob, llm, config, batch, cleaned,
          extracted, processed_data, analysis, reanalysis, recommendations,
          request, discovered, displayed, results, pc>>

\* The result of a call: not made yet, or made with the value it returned.
NotCalled == [called |-> FALSE]

Called(v) == [called |-> TRUE, value |-> v]

\* the empty dict
EmptyDict == <<>>

(***************************************************************************)
(* Bounds of the model.                                                    *)
(***************************************************************************)
MaxFrags == 4       \* fragments per text handed to clean_text directly
MaxRawFrags == 3    \* fragments per raw review text handed to clean_reviews
MaxBatch == 3       \* reviews per batch of the pipeline specification
MaxWords == 11      \* words per review text of the keyword specification
PhraseLen == 2      \* length of the phrase such a text repeats
MaxTableBatch == 3

MaxClientBatch == 4

MaxHits == 2        \* hits a search finds for one keyword
MaxLimit == 3       \* the limit of a discover_apps call

MaxMembers == 11    \* reviews per batch of the summary specification
MaxSections == 3    \* headers per reply of the parser specification

(***************************************************************************)
(* Characters.                                                             *)
(***************************************************************************)
Lowercase == {"a", "b", "c", "d", "e", "f", "g", "h", "i", "j", "k", "l", "m",
              "n", "o", "p", "q", "r", "s", "t", "u", "v", "w", "x", "y", "z"}

Uppercase == {"B", "L"}

\* str.lower() on one character
LowerChar(c) == CASE c = "B" -> "b" [] c = "L" -> "l" [] OTHER -> c

\* \s of the re module, str.isspace()
IsSpace(c) == c \in {" ", "\t"}

\* \w of the re module
IsWordChar(c) == c \in Lowercase \cup Uppercase \cup {"_"}

\* the characters the URL pattern repeats after "://":
\* [a-zA-Z] | [0-9] | [$-_@.&+] | [!*\(\),] | %XX
\* ('$'-'_' is the ASCII range 0x24..0x5F: it holds '.', '/', ':', '@', '_')
IsUrlChar(c) == \/ c \in Lowercase \cup Uppercase
                \/ c \in {"$", "_", "@", ".", "&", "+", "/", ":", "-", ";", "?",
                          "!", "*", "(", ")", ",", "%"}

\* the characters [^\w\s\.\!\?\,\;\:\-\(\)] leaves in place
IsAllowedChar(c) == \/ IsWordChar(c)
                    \/ IsSpace(c)
                    \/ c \in {".", "!", "?", ",", ";", ":", "-", "(", ")"}

(***************************************************************************)
(* Sequence helpers.                                                       *)
(***************************************************************************)
\* s[a:b] of Python written with 1-based inclusive positions
Slice(s, a, b) == IF a > b THEN <<>> ELSE SubSeq(s, a, b)

\* s[:n]
FirstN(s, n) == IF Len(s) <= n THEN s ELSE SubSeq(s, 1, n)

RECURSIVE Concat(_)
Concat(ss) == IF ss = <<>> THEN <<>> ELSE Head(ss) \o Concat(Tail(ss))

\* the least element of a non-empty set of integers
Min(S) == CHOOSE x \in S : \A y \in S : x <= y

\* the elements of a finite set of integers in ascending order
Ascending(S) ==
    IF S = {} THEN <<>>
    ELSE LET lo == Min(S)
             hi == CHOOSE x \in S : \A y \in S : y <= x
         IN  SelectSeq([i \in 1..(hi - lo + 1) |-> lo + i - 1], LAMBDA x : x \in S)

\* the characters of t at the positions P, in the order of t
Keep(t, P) == LET order == Ascending(P) IN [k \in 1..Len(order) |-> t[order[k]]]

\* inRun[j] tells whether character j belongs to the runs looked for; the
\* last position of the run that starts at position i (i - 1 when
\* character i is outside the runs)
RunEnd(inRun, i) ==
    LET stops == {j \in i..Len(inRun) : ~inRun[j]}
    IN  IF stops = {} THEN Len(inRun) ELSE Min(stops) - 1

IsNonSpace(c) == ~IsSpace(c)

NonSpaceAt(t) == [j \in 1..Len(t) |-> IsNonSpace(t[j])]

\* str.strip()
LStrip(t) ==
    LET keep == {i \in 1..Len(t) : IsNonSpace(t[i])}
    IN  IF keep = {} THEN <<>> ELSE Slice(t, Min(keep), Len(t))

RStrip(t) ==
    LET keep == {i \in 1..Len(t) : IsNonSpace(t[i])}
    IN  IF keep = {} THEN <<>> ELSE Slice(t, 1, Len(t) - Min({Len(t) - i : i \in keep}))

Strip(t) == RStrip(LStrip(t))

\* the maximal runs of t marked by inRun, in the order of t
Runs(t, inRun) ==
    LET starts == Ascending({i \in 1..Len(t) :
                                inRun[i] /\ (i = 1 \/ ~inRun[i - 1])})
    IN  [k \in 1..Len(starts) |-> Slice(t, starts[k], RunEnd(inRun, starts[k]))]

\* str.split(): the maximal runs of non-whitespace characters
Split(t) == Runs(t, NonSpaceAt(t))

(***************************************************************************)
(* DataProcessor.clean_text                                                *)
(***************************************************************************)
\* text.lower()
ToLower(t) == [i \in 1..Len(t) |-> LowerChar(t[i])]

\* last position of the run of URL characters that starts at position i
\* (i - 1 when t[i] is no URL character)
UrlRunEnd(t, i) == RunEnd([j \in 1..Len(t) |-> IsUrlChar(t[j])], i)

HasAt(t, i, lit) ==
    /\ i + Len(lit) - 1 <= Len(t)
    /\ \A j \in 1..Len(lit) : t[i + j - 1] = lit[j]

\* end of the match of  http[s]?://(?:...)+  at position i, 0 if none
UrlMatchEnd(t, i) ==
    LET http   == <<"h", "t", "t", "p">>
        sep    == <<":", "/", "/">>
        withS  == HasAt(t, i, http \o <<"s">> \o sep)
        noS    == HasAt(t, i, http \o sep)
        start  == IF withS THEN i + 8 ELSE i + 7
        runEnd == UrlRunEnd(t, start)
    IN  IF (withS \/ noS) /\ runEnd >= start THEN runEnd ELSE 0

\* re.sub(url pattern, '', text): leftmost non-overlapping matches removed;
\* the scan goes on after the end of each match
RECURSIVE RemoveUrlsFrom(_, _)
RemoveUrlsFrom(t, i) ==
    LET starts == {j \in i..Len(t) : UrlMatchEnd(t, j) > 0}
    IN  IF starts = {} THEN Slice(t, i, Len(t))
        ELSE Slice(t, i, Min(starts) - 1)
             \o RemoveUrlsFrom(t, UrlMatchEnd(t, Min(starts)) + 1)

RemoveUrls(t) == RemoveUrlsFrom(t, 1)

\* last position of the run of non-whitespace that starts at position i
NonSpaceRunEnd(t, i) == RunEnd(NonSpaceAt(t), i)

\* end of the match of  \S+@\S+  at position i, 0 if none: some '@' of the
\* run has a run character before it (at or after i) and one after it; the
\* trailing greedy \S+ then takes the rest of the run
EmailMatchEnd(t, i) ==
    LET e == NonSpaceRunEnd(t, i)
    IN  IF \E j \in (i + 1)..(e - 1) : t[j] = "@" THEN e ELSE 0

\* re.sub(r'\S+@\S+', '', text)
RECURSIVE RemoveEmailsFrom(_, _)
RemoveEmailsFrom(t, i) ==
    LET starts == {j \in i..Len(t) : EmailMatchEnd(t, j) > 0}
    IN  IF starts = {} THEN Slice(t, i, Len(t))
        ELSE Slice(t, i, Min(starts) - 1)
             \o RemoveEmailsFrom(t, EmailMatchEnd(t, Min(starts)) + 1)

RemoveEmails(t) == RemoveEmailsFrom(t, 1)

\* re.sub(r'[^\w\s\.\!\?\,\;\:\-\(\)]', '', text)
StripSpecial(t) == Keep(t, {i \in 1..Len(t) : IsAllowedChar(t[i])})

\* re.sub(r'\s+', ' ', text): the first character of every run of
\* whitespace becomes a blank, the rest of the run goes
CollapseWhitespace(t) ==
    LET blanked == [i \in 1..Len(t) |-> IF IsSpace(t[i]) THEN " " ELSE t[i]]
    IN  Keep(blanked, {i \in 1..Len(t) : ~(IsSpace(t[i]) /\ i > 1 /\ IsSpace(t[i - 1]))})

\* a clean_text that strips the ends before it removes the disallowed
\* characters
clean_text_strip_first(t) ==
    CollapseWhitespace(StripSpecial(Strip(RemoveEmails(RemoveUrls(ToLower(t))))))

clean_text(t) ==
    Strip(CollapseWhitespace(StripSpecial(RemoveEmails(RemoveUrls(ToLower(t))))))

(***************************************************************************)
(* Python values.  A review is a dict (a record); the value of its 'text'  *)
(* key is a str or None; a list element that is no dict is None.           *)
(***************************************************************************)
Str(s) == [type |-> "str", s |-> s]

PyNone == [type |-> "NoneType"]

IsDict(v) == "type" \notin DOMAIN v

IsStr(v) == "type" \in DOMAIN v /\ v.type = "str"

\* dict.get(key, default)
Get(d, key, default) == IF key \in DOMAIN d THEN d[key] ELSE default

\* d.update(new), and d[key] = value for the keys of new
Update(d, new) == new @@ d

(***************************************************************************)
(* DataProcessor.clean_reviews                                             *)
(***************************************************************************)
\* the statements of the try block that raise: review.get on a non-dict,
\* .strip() on a text that is no str
CleanRaises(review) ==
    \/ ~IsDict(review)
    \/ ~IsStr(Get(review, "text", Str(<<>>)))

\* the defaults of processing_config.get(...)
DefaultMinReviewLength == 20

DefaultMaxReviewLength == 1000

DefaultMinWordCount == 3

\* an iteration that never rejects a text for being too long
CleanOneNoMax(review, processing_config) ==
    LET min_length     == Get(processing_config, "min_review_length", DefaultMinReviewLength)
        min_word_count == Get(processing_config, "min_word_count", DefaultMinWordCount)
    IN  IF CleanRaises(review) THEN <<>>
        ELSE LET txt          == Strip(Get(review, "text", Str(<<>>)).s)
                 cleaned_text == clean_text(txt)
                 word_count   == Len(Split(cleaned_text))
             IN  IF Len(txt) < min_length THEN <<>>
                 ELSE IF word_count < min_word_count THEN <<>>
                 ELSE IF Len(cleaned_text) < min_length THEN <<>>
                 ELSE <<Update(review, [text        |-> Str(cleaned_text),
                                        text_length |-> Len(cleaned_text),
                                        word_count  |-> Len(Split(cleaned_text))])>>

\* an iteration that does not measure the text again after cleaning it
CleanOneNoRecheck(review, processing_config) ==
    LET min_length     == Get(processing_config, "min_review_length", DefaultMinReviewLength)
        max_length     == Get(processing_config, "max_review_length", DefaultMaxReviewLength)
        min_word_count == Get(processing_config, "min_word_count", DefaultMinWordCount)
    IN  IF CleanRaises(review) THEN <<>>
        ELSE LET txt          == Strip(Get(review, "text", Str(<<>>)).s)
                 cleaned_text == clean_text(txt)
                 word_count   == Len(Split(cleaned_text))
             IN  IF Len(txt) < min_length \/ Len(txt) > max_length THEN <<>>
                 ELSE IF word_count < min_word_count THEN <<>>
                 ELSE <<Update(review, [text        |-> Str(cleaned_text),
                                        text_length |-> Len(cleaned_text),
                                        word_count  |-> Len(Split(cleaned_text))])>>

\* one iteration of the loop: the reviews it appends to cleaned_reviews
CleanOne(review, processing_config) ==
    LET min_length     == Get(processing_config, "min_review_length", DefaultMinReviewLength)
        max_length     == Get(processing_config, "max_review_length", DefaultMaxReviewLength)
        min_word_count == Get(processing_config, "min_word_count", DefaultMinWordCount)
    IN  IF CleanRaises(review) THEN <<>>
        ELSE LET txt          == Strip(Get(review, "text", Str(<<>>)).s)
                 cleaned_text == clean_text(txt)
                 word_count   == Len(Split(cleaned_text))
             IN  IF Len(txt) < min_length \/ Len(txt) > max_length THEN <<>>
                 ELSE IF word_count < min_word_count THEN <<>>
                 ELSE IF Len(cleaned_text) < min_length THEN <<>>
                 ELSE <<Update(review, [text        |-> Str(cleaned_text),
                                        text_length |-> Len(cleaned_text),
                                        word_count  |-> Len(Split(cleaned_text))])>>

\* a clean_reviews whose try block encloses the loop: the first review that
\* raises ends the batch
RECURSIVE clean_reviews_abort(_, _)
clean_reviews_abort(reviews, processing_config) ==
    IF reviews = <<>> \/ CleanRaises(Head(reviews)) THEN <<>>
    ELSE CleanOne(Head(reviews), processing_config)
         \o clean_reviews_abort(Tail(reviews), processing_config)

RECURSIVE clean_reviews(_, _)
clean_reviews(reviews, processing_config) ==
    IF reviews = <<>> THEN <<>>
    ELSE CleanOne(Head(reviews), processing_config)
         \o clean_reviews(Tail(reviews), processing_config)

(***************************************************************************)
(* DataProcessor.extract_keywords                                          *)
(***************************************************************************)
\* the limit of the slice [:10]
KeywordLimit == 10

\* the entries of nltk's English stop-word list the model's words can spell
StopWords == {<<"t", "h", "i", "s">>, <<"t", "h", "a", "t">>, <<"i", "t">>}

\* WordNetLemmatizer.lemmatize on the model's words: a plural noun loses
\* its ending, any other word is returned as it is
Lemmatize(w) ==
    IF w = <<"b", "u", "g", "s">> THEN <<"b", "u", "g">>
    ELSE IF w = <<"a", "p", "p", "s">> THEN <<"a", "p", "p">>
    ELSE w

\* str.isalpha()
IsAlpha(w) == w # <<>> /\ \A i \in 1..Len(w) : w[i] \in Lowercase \cup Uppercase

\* word_tokenize on a cleaned text of letters and blanks: its words
WordTokenize(t) == Split(t)

IsLongWord(w) == Len(w) > 3

IsFullKeyword(w) == w \notin StopWords /\ Len(w) > 3 /\ IsAlpha(w)

MapLemmatize(ws) == [i \in 1..Len(ws) |-> Lemmatize(ws[i])]

\* an extract_keywords that returns every keyword it finds
extract_keywords_unbounded(t, toolkit) ==
    IF toolkit = "basic" THEN SelectSeq(Split(t), IsLongWord)
    ELSE IF toolkit = "broken" THEN <<>>
    ELSE MapLemmatize(SelectSeq(WordTokenize(ToLower(t)), IsFullKeyword))

\* toolkit "basic":  NLTK_AVAILABLE is False;
\* toolkit "full":   nltk is imported and _initialize_nltk succeeded;
\* toolkit "broken": nltk is imported and _initialize_nltk failed: the flag it
\*                   assigns is a local of that method, NLTK_AVAILABLE stays
\*                   True, the tokenizer or self.stop_words raises inside the
\*                   try block and the except clause returns []
extract_keywords(t, toolkit) ==
    IF toolkit = "basic" THEN FirstN(SelectSeq(Split(t), IsLongWord), KeywordLimit)
    ELSE IF toolkit = "broken" THEN <<>>
    ELSE FirstN(MapLemmatize(SelectSeq(WordTokenize(ToLower(t)), IsFullKeyword)),
                KeywordLimit)

(***************************************************************************)
(* DataProcessor.extract_text_features, extract_features, process_reviews  *)
(***************************************************************************)
Count(t, c) == Cardinality({i \in 1..Len(t) : t[i] = c})

extract_text_features(t) ==
    [word_count      |-> Len(Split(t)),
     char_count      |-> Len(t),
     sentence_count  |-> Count(t, ".") + Count(t, "!") + Count(t, "?"),
     has_question    |-> \E i \in 1..Len(t) : t[i] = "?",
     has_exclamation |-> \E i \in 1..Len(t) : t[i] = "!",
     has_uppercase   |-> \E i \in 1..Len(t) : t[i] \in Uppercase]

\* the statements of the try block that raise: review.copy() on a non-dict,
\* review['text'] without the key, the str methods on a text that is no str
FeaturesRaise(review) ==
    \/ ~IsDict(review)
    \/ "text" \notin DOMAIN review
    \/ ~IsStr(review.text)

\* the entries of TextBlob's sentiment lexicon the model's words can spell,
\* polarity and subjectivity in hundredths
SentimentLexicon ==
    (<<"l", "o", "v", "e">> :> [polarity |-> 50, subjectivity |-> 60])
    @@ (<<"b", "a", "d">> :> [polarity |-> -70, subjectivity |-> 67])
    @@ (<<"o", "k">> :> [polarity |-> 50, subjectivity |-> 50])

RECURSIVE Sum(_)
Sum(ns) == IF ns = <<>> THEN 0 ELSE Head(ns) + Sum(Tail(ns))

\* TextBlob(text).sentiment: the average over the words of the lexicon the
\* text holds, 0.0 and 0.0 when it holds none
TextBlobSentiment(t) ==
    LET scored == SelectSeq(Split(ToLower(t)), LAMBDA w : w \in DOMAIN SentimentLexicon)
    IN  IF scored = <<>> THEN [polarity |-> 0, subjectivity |-> 0]
        ELSE [polarity     |-> Sum([i \in 1..Len(scored) |->
                                       SentimentLexicon[scored[i]].polarity])
                               \div Len(scored),
              subjectivity |-> Sum([i \in 1..Len(scored) |->
                                       SentimentLexicon[scored[i]].subjectivity])
                               \div Len(scored)]

SentimentModes == {"available", "unavailable", "failing"}

\* sentiment_lib "available":   textblob is imported and TextBlob(text) works;
\* sentiment_lib "unavailable": TEXTBLOB_AVAILABLE is False;
\* sentiment_lib "failing":     textblob is imported and TextBlob(text) raises
extract_sentiment(t, sentiment_lib) ==
    IF sentiment_lib = "unavailable" THEN [polarity |-> 0, subjectivity |-> 0]
    ELSE IF sentiment_lib = "failing" THEN [polarity |-> 0, subjectivity |-> 0]
    ELSE TextBlobSentiment(t)

\* the word lists of detect_language
EnglishWords ==
    {<<"t", "h", "e">>, <<"a", "n", "d">>, <<"o", "r">>, <<"b", "u", "t">>,
     <<"i", "n">>, <<"o", "n">>, <<"a", "t">>, <<"t", "o">>, <<"f", "o", "r">>,
     <<"o", "f">>, <<"w", "i", "t", "h">>, <<"b", "y">>}

SpanishWords ==
    {<<"e", "l">>, <<"l", "a">>, <<"d", "e">>, <<"q", "u", "e">>, <<"y">>, <<"a">>,
     <<"e", "n">>, <<"u", "n">>, <<"e", "s">>, <<"s", "e">>, <<"n", "o">>,
     <<"t", "e">>, <<"l", "o">>, <<"l", "e">>}

\* a detect_language that counts every occurrence of a listed word
detect_language_occurrences(t) ==
    LET split         == Split(ToLower(t))
        english_count == Cardinality({i \in 1..Len(split) : split[i] \in EnglishWords})
        spanish_count == Cardinality({i \in 1..Len(split) : split[i] \in SpanishWords})
    IN  IF spanish_count > english_count THEN "es" ELSE "en"

detect_language(t) ==
    LET split         == Split(ToLower(t))
        words         == {split[i] : i \in 1..Len(split)}
        english_count == Cardinality(words \cap EnglishWords)
        spanish_count == Cardinality(words \cap SpanishWords)
    IN  IF spanish_count > english_count THEN "es" ELSE "en"

\* a sentiment step that runs whether or not the library was imported
SentimentFieldsAlways(t, processing_config, sentiment_lib) ==
    [sentiment |-> extract_sentiment(t, sentiment_lib)]

\* the sentiment step of the loop body: it runs when the library was imported
\* and the configuration does not switch it off
SentimentFields(t, processing_config, sentiment_lib) ==
    IF sentiment_lib # "unavailable" /\ Get(processing_config, "sentiment_analysis", TRUE)
    THEN [sentiment |-> extract_sentiment(t, sentiment_lib)]
    ELSE EmptyDict

\* the language step of the loop body
LanguageFields(t, processing_config) ==
    IF Get(processing_config, "language_detection", TRUE)
    THEN [language |-> detect_language(t)]
    ELSE EmptyDict

\* one iteration of the loop: the reviews it appends to processed_reviews
FeaturesOne(review, processing_config, toolkit, sentiment_lib) ==
    IF FeaturesRaise(review) THEN <<review>>
    ELSE LET t == review.text.s
         IN  <<Update(Update(Update(Update(review,
                      SentimentFields(t, processing_config, sentiment_lib)),
                      LanguageFields(t, processing_config)),
                      [keywords |-> extract_keywords(t, toolkit)]),
                      extract_text_features(t))>>

RECURSIVE extract_features(_, _, _, _)
extract_features(reviews, processing_config, toolkit, sentiment_lib) ==
    IF reviews = <<>> THEN <<>>
    ELSE FeaturesOne(Head(reviews), processing_config, toolkit, sentiment_lib)
         \o extract_features(Tail(reviews), processing_config, toolkit, sentiment_lib)

\* create_structured_data: the text corpus and the review count
create_structured_data(reviews) ==
    [texts         |-> [i \in 1..Len(reviews) |-> reviews[i].text],
     total_reviews |-> Len(reviews)]

process_reviews(reviews, processing_config, toolkit, sentiment_lib) ==
    LET cleaned_reviews   == clean_reviews(reviews, processing_config)
        processed_reviews == extract_features(cleaned_reviews, processing_config,
                                              toolkit, sentiment_lib)
    IN  [reviews         |-> processed_reviews,
         structured_data |-> create_structured_data(processed_reviews)]

(***************************************************************************)
(* Exceptions: a call either returns a value or raises an error.           *)
(***************************************************************************)
Raise(type, message) == [raised |-> TRUE, error |-> [type |-> type, message |-> message]]

Return(value) == [raised |-> FALSE, value |-> value]

(***************************************************************************)
(* ClusterAnalyzer._extract_features: TfidfVectorizer(max_features,        *)
(* ngram_range, stop_words='english', min_df=2, max_df=0.95).fit_transform *)
(***************************************************************************)
\* min_df=2: a term of the vocabulary occurs in at least two documents
MinDf == 2

\* max_df=0.95, in percent: a term occurs in at most 95% of the documents
MaxDfPercent == 95

\* the default of feature_config.get('max_features', 1500)
DefaultMaxFeatures == 1500

\* the default of feature_config.get('ngram_range', [1, 3])
DefaultNgramRange == <<1, 3>>

\* a vectorizer that falls back to unigrams when ngram_range is missing
VectorizerParamsUnigrams(clustering_config) ==
    LET feature_config == Get(clustering_config, "feature_extraction", EmptyDict)
    IN  [max_features |-> Get(feature_config, "max_features", DefaultMaxFeatures),
         ngram_range  |-> Get(feature_config, "ngram_range", <<1, 1>>)]

\* the max_features and ngram_range the TfidfVectorizer is constructed with
VectorizerParams(clustering_config) ==
    LET feature_config == Get(clustering_config, "feature_extraction", EmptyDict)
    IN  [max_features |-> Get(feature_config, "max_features", DefaultMaxFeatures),
         ngram_range  |-> Get(feature_config, "ngram_range", DefaultNgramRange)]

\* the entries of scikit-learn's English stop-word list the model's words
\* can spell
SklearnStopWords == {<<"t", "h", "i", "s">>, <<"t", "h", "a", "t">>, <<"i", "t">>}

\* the token pattern \b\w\w+\b: the runs of two or more word characters
WordRuns(t) ==
    SelectSeq(Runs(t, [j \in 1..Len(t) |-> IsWordChar(t[j])]), LAMBDA w : Len(w) >= 2)

\* the analyzer of one document: lowercase, tokenize, drop the stop words
Tokens(t) ==
    SelectSeq(WordRuns(ToLower(t)), LAMBDA w : w \notin SklearnStopWords)

\* the n-grams (n = ngram_range[1]..ngram_range[2]) of one document
NgramsOf(t, ngram_range) ==
    LET toks == Tokens(t)
    IN  {SubSeq(toks, p[1], p[2]) :
            p \in {q \in (1..Len(toks)) \X (1..Len(toks)) :
                      /\ q[1] <= q[2]
                      /\ q[2] - q[1] + 1 >= ngram_range[1]
                      /\ q[2] - q[1] + 1 <= ngram_range[2]}}

\* the number of times a term occurs in the corpus; tokens[d] is the token
\* list of document d
TermCount(term, tokens) ==
    Cardinality({dp \in UNION {{<<d, p>> : p \in 1..Len(tokens[d])} : d \in 1..Len(tokens)} :
                    /\ dp[2] + Len(term) - 1 <= Len(tokens[dp[1]])
                    /\ SubSeq(tokens[dp[1]], dp[2], dp[2] + Len(term) - 1) = term})

\* the number of documents a term occurs in; grams[i] is the set of n-grams
\* of document i
DocFreq(term, grams) == Cardinality({i \in 1..Len(grams) : term \in grams[i]})

\* the terms that survive the pruning by min_df and max_df
Vocabulary(grams) ==
    {term \in UNION {grams[i] : i \in 1..Len(grams)} :
        /\ DocFreq(term, grams) >= MinDf
        /\ 100 * DocFreq(term, grams) <= MaxDfPercent * Len(grams)}

\* max_features: the vocabularies the vectorizer may keep of the terms that
\* survived the pruning, the max_features most frequent of the corpus; which
\* of equally frequent terms it keeps is left to its sort
LimitFeatures(vocab, tokens, max_features) ==
    IF Cardinality(vocab) <= max_features THEN {vocab}
    ELSE LET tfs == [term \in vocab |-> TermCount(term, tokens)]
         IN  {kept \in SUBSET vocab :
                 /\ Cardinality(kept) = max_features
                 /\ \A a \in kept : \A b \in vocab \ kept : tfs[a] >= tfs[b]}

\* texts: the list of str the reviews carry.  Row i of the matrix is kept as
\* the set of vocabulary terms of document i (the tf-idf weight of a term is
\* positive exactly for these terms).  The result is the set of outcomes
\* the vectorizer may produce.
extract_tfidf_features(texts, clustering_config) ==
    LET params == VectorizerParams(clustering_config)
        tokens == [i \in 1..Len(texts) |-> Tokens(texts[i].s)]
        grams  == [i \in 1..Len(texts) |-> NgramsOf(texts[i].s, params.ngram_range)]
        all    == UNION {grams[i] : i \in 1..Len(grams)}
        vocab  == Vocabulary(grams)
    IN  IF all = {}
        THEN {Raise("ValueError", "empty vocabulary")}
        ELSE IF MaxDfPercent * Len(grams) < 100 * MinDf
        THEN {Raise("ValueError", "max_df corresponds to < documents than min_df")}
        ELSE IF vocab = {}
        THEN {Raise("ValueError", "After pruning, no terms remain")}
        ELSE {Return([matrix        |-> [i \in 1..Len(grams) |-> grams[i] \cap kept],
                      feature_names |-> kept,
                      vectorizer    |-> params,
                      method        |-> "tfidf"]) :
                 kept \in LimitFeatures(vocab, tokens, params.max_features)}

(***************************************************************************)
(* ClusterAnalyzer._perform_clustering and _analyze_clusters               *)
(***************************************************************************)
\* an np.where that also takes the rows of the lower labels
IndicesUpTo(cluster_labels, label) ==
    Ascending({idx \in 0..(Len(cluster_labels) - 1) : cluster_labels[idx + 1] <= label})

\* np.where(cluster_labels == label)[0]: the 0-based rows that carry label
IndicesOf(cluster_labels, label) ==
    Ascending({idx \in 0..(Len(cluster_labels) - 1) : cluster_labels[idx + 1] = label})

\* the entry clusters[f'cluster_{label}'] the loop body builds
ClusterOf(cluster_labels, label, texts, reviews) ==
    LET cluster_indices == IndicesOf(cluster_labels, label)
    IN  [id      |-> label,
         size    |-> Len(cluster_indices),
         reviews |-> [j \in 1..Len(cluster_indices) |-> reviews[cluster_indices[j] + 1]],
         texts   |-> [j \in 1..Len(cluster_indices) |-> texts[cluster_indices[j] + 1]],
         indices |-> cluster_indices]

\* a _perform_clustering that reports the highest label plus one as n_clusters
perform_clustering_max_label(cluster_labels, texts, reviews) ==
    LET unique_labels == {cluster_labels[i] : i \in 1..Len(cluster_labels)}
        order         == Ascending(unique_labels)
        clusters      == [j \in 1..Len(order) |->
                             ClusterOf(cluster_labels, order[j], texts, reviews)]
    IN  [algorithm      |-> "kmeans",
         n_clusters     |-> order[Len(order)] + 1,
         cluster_labels |-> cluster_labels,
         clusters       |-> clusters]

\* the part of _perform_clustering after fit_predict returned cluster_labels;
\* the dict clusters is kept as the list of its values in insertion order,
\* which is the ascending order of the labels
perform_clustering(cluster_labels, texts, reviews) ==
    LET unique_labels == {cluster_labels[i] : i \in 1..Len(cluster_labels)}
        order         == Ascending(unique_labels)
        clusters      == [j \in 1..Len(order) |->
                             ClusterOf(cluster_labels, order[j], texts, reviews)]
    IN  [algorithm      |-> "kmeans",
         n_clusters     |-> Len(clusters),
         cluster_labels |-> cluster_labels,
         clusters       |-> clusters]

\* the limit of most_common(10)
TableLimit == 10

\* all_keywords of one cluster: the keywords of its reviews, one review
\* after the other
AllKeywords(cluster_reviews) ==
    Concat([i \in 1..Len(cluster_reviews) |->
               Get(cluster_reviews[i], "keywords", <<>>)])

\* the position at which Counter(all_keywords) inserts its key for keyword
FirstSeen(all_keywords, keyword) ==
    Min({i \in 1..Len(all_keywords) : all_keywords[i] = keyword})

\* Counter(all_keywords)[keyword]
CountOf(all_keywords, keyword) ==
    Cardinality({i \in 1..Len(all_keywords) : all_keywords[i] = keyword})

\* a most_common that lists the later-seen of two equally frequent keywords first
most_common_last_seen(all_keywords, n) ==
    LET keys      == {all_keywords[i] : i \in 1..Len(all_keywords)}
        Before(a, b) ==
            \/ CountOf(all_keywords, a) > CountOf(all_keywords, b)
            \/ /\ CountOf(all_keywords, a) = CountOf(all_keywords, b)
               /\ FirstSeen(all_keywords, a) > FirstSeen(all_keywords, b)
        Rank(a)   == Cardinality({b \in keys : Before(b, a)})
        size      == IF Cardinality(keys) < n THEN Cardinality(keys) ELSE n
    IN  [r \in 1..size |->
            LET key == CHOOSE a \in keys : Rank(a) = r - 1
            IN  [keyword |-> key, count |-> CountOf(all_keywords, key)]]

\* dict(Counter(all_keywords).most_common(n)): the n most frequent keywords
\* with their counts, the more frequent first and of equally frequent ones
\* the one the Counter saw first; the dict is kept as the list of its items
most_common(all_keywords, n) ==
    LET keys      == {all_keywords[i] : i \in 1..Len(all_keywords)}
        Before(a, b) ==
            \/ CountOf(all_keywords, a) > CountOf(all_keywords, b)
            \/ /\ CountOf(all_keywords, a) = CountOf(all_keywords, b)
               /\ FirstSeen(all_keywords, a) < FirstSeen(all_keywords, b)
        Rank(a)   == Cardinality({b \in keys : Before(b, a)})
        size      == IF Cardinality(keys) < n THEN Cardinality(keys) ELSE n
    IN  [r \in 1..size |->
            LET key == CHOOSE a \in keys : Rank(a) = r - 1
            IN  [keyword |-> key, count |-> CountOf(all_keywords, key)]]

\* _analyze_clusters: the cluster count and, in the order of the clusters,
\* the size and the keyword table of every cluster
analyze_clusters(clustering_results) ==
    LET clusters == clustering_results.clusters
    IN  [total_clusters   |-> Len(clusters),
         cluster_sizes    |-> [j \in 1..Len(clusters) |-> Len(clusters[j].reviews)],
         cluster_keywords |-> [j \in 1..Len(clusters) |->
                                  most_common(AllKeywords(clusters[j].reviews),
                                              TableLimit)]]

\* the default of clustering_config.get('n_clusters', 8)
DefaultNClusters == 8

\* a fit_predict that accepts any number of rows
KMeansRejectsNone(n_samples, n_clusters) == FALSE

\* KMeans(n_clusters, random_state=42, n_init=10).fit_predict raises a
\* ValueError when the matrix has fewer rows than n_clusters
KMeansRejects(n_samples, n_clusters) == n_samples < n_clusters

\* the label vectors fit_predict may return: one label of 0..n_clusters-1 per row
KMeansLabels(n_samples, n_clusters) == [1..n_samples -> 0..(n_clusters - 1)]

\* the KMeans the result carries as 'model'
KMeansModel(n_clusters) == [n_clusters |-> n_clusters, random_state |-> 42, n_init |-> 10]

\* the outcomes a second fit_transform may produce after a fit that made
\* previous.features of previous.texts: the vectorizer is a function of its
\* parameters and the texts
VectorizerRefit(previous, texts, clustering_config) ==
    IF /\ previous.texts = texts
       /\ previous.features.vectorizer = VectorizerParams(clustering_config)
    THEN {Return(previous.features)}
    ELSE extract_tfidf_features(texts, clustering_config)

\* a KMeans that draws its seed anew for every fit (random_state=None)
KMeansRefitUnseeded(previous, matrix, n_clusters) == KMeansLabels(Len(matrix), n_clusters)

\* the label vectors a fit may return after a fit that returned previous:
\* KMeans(n_clusters, random_state=42, n_init=10) starts every fit from the
\* same seed, so the fit of the same matrix with the same n_clusters
\* returns the same labels
KMeansRefit(previous, matrix, n_clusters) ==
    IF /\ previous.matrix = matrix
       /\ previous.n_clusters = n_clusters
    THEN {previous.cluster_labels}
    ELSE KMeansLabels(Len(matrix), n_clusters)

(***************************************************************************)
(* ClusterAnalyzer.analyze                                                 *)
(***************************************************************************)
\* the outcome of a call with the steps that ran before it ended
Outcome(result, ran) == result @@ [ran |-> ran]

\* the outcome of analyze when the vectorizer returned features and
\* fit_predict returned cluster_labels
AnalysisOf(reviews, texts, clustering_config, features, cluster_labels) ==
    LET n_clusters == Get(clustering_config, "n_clusters", DefaultNClusters)
        clusters   == perform_clustering(cluster_labels, texts, reviews)
                      @@ [model |-> KMeansModel(n_clusters)]
    IN  Outcome(Return([clusters          |-> clusters,
                        cluster_analysis  |-> analyze_clusters(clusters),
                        features          |-> features,
                        clustering_config |-> clustering_config]),
                <<"vectorize", "kmeans">>)

\* steps 2 and 3 of analyze after the vectorizer ended with features
ClusterFeatures(reviews, texts, clustering_config, features) ==
    LET n_clusters == Get(clustering_config, "n_clusters", DefaultNClusters)
    IN  IF features.raised THEN {Outcome(features, <<"vectorize">>)}
        ELSE IF KMeansRejects(Len(features.value.matrix), n_clusters)
        THEN {Outcome(Raise("ValueError", "n_samples should be >= n_clusters"),
                      <<"vectorize", "kmeans">>)}
        ELSE {AnalysisOf(reviews, texts, clustering_config, features.value, labels) :
                 labels \in KMeansLabels(Len(features.value.matrix), n_clusters)}

\* steps 1 to 3 of analyze: the outcomes the vectorizer and fit_predict
\* leave possible
AnalyzeTexts(reviews, texts, clustering_config) ==
    UNION {ClusterFeatures(reviews, texts, clustering_config, features) :
              features \in extract_tfidf_features(texts, clustering_config)}

\* steps 2 and 3 of a second analyze after one that fitted previous
ReclusterFeatures(reviews, texts, clustering_config, features, previous) ==
    LET n_clusters == Get(clustering_config, "n_clusters", DefaultNClusters)
    IN  IF features.raised THEN {Outcome(features, <<"vectorize">>)}
        ELSE IF KMeansRejects(Len(features.value.matrix), n_clusters)
        THEN {Outcome(Raise("ValueError", "n_samples should be >= n_clusters"),
                      <<"vectorize", "kmeans">>)}
        ELSE {AnalysisOf(reviews, texts, clustering_config, features.value, labels) :
                 labels \in KMeansRefit(previous, features.value.matrix, n_clusters)}

\* steps 1 to 3 of a second analyze after one that fitted previous
ReanalyzeTexts(reviews, texts, clustering_config, previous) ==
    UNION {ReclusterFeatures(reviews, texts, clustering_config, features, previous) :
              features \in VectorizerRefit(previous, texts, clustering_config)}

\* the set of outcomes of a second analyze(processed_data) of the process
\* whose first analyze fitted previous
reanalyze(processed, clustering_config, previous) ==
    LET reviews == Get(processed, "reviews", <<>>)
        texts   == [i \in 1..Len(reviews) |-> Get(reviews[i], "text", Str(<<>>))]
    IN  IF texts = <<>>
        THEN {Outcome(Raise("ValueError", "No text data available for clustering"), <<>>)}
        ELSE ReanalyzeTexts(reviews, texts, clustering_config, previous)

\* an analyze that hands an empty corpus to the vectorizer
analyze_unchecked(processed, clustering_config) ==
    LET reviews == Get(processed, "reviews", <<>>)
        texts   == [i \in 1..Len(reviews) |-> Get(reviews[i], "text", Str(<<>>))]
    IN  AnalyzeTexts(reviews, texts, clustering_config)

\* the set of outcomes of analyze(processed_data)
analyze(processed, clustering_config) ==
    LET reviews == Get(processed, "reviews", <<>>)
        texts   == [i \in 1..Len(reviews) |-> Get(reviews[i], "text", Str(<<>>))]
    IN  IF texts = <<>>
        THEN {Outcome(Raise("ValueError", "No text data available for clustering"), <<>>)}
        ELSE AnalyzeTexts(reviews, texts, clustering_config)

(***************************************************************************)
(* LLMAnalyzer._prepare_cluster_summaries                                  *)
(* The dict of clusters is the list of its values in insertion order; the  *)
(* key of a value is f'cluster_{label}'.                                   *)
(***************************************************************************)
\* a dict handed on as a value that may also be something else than a dict
Dict(items) == [type |-> "dict", items |-> items]

\* the limit of the slices [:10] of the representative reviews
RepresentativeLimit == 10

\* the key f'cluster_{label}' of a cluster
ClusterKey(label) == <<"cluster", label>>

\* a representative record that carries the whole review
RepresentativeWhole(r) == r

\* {'text': r.get('text', '')}
Representative(r) == [text |-> Get(r, "text", Str(<<>>))]

\* a summary that reports the number of representatives as its size
SummaryOfSample(cluster_data) ==
    LET cluster_reviews        == Get(cluster_data, "reviews", <<>>)
        representative_reviews == FirstN(cluster_reviews, RepresentativeLimit)
    IN  [id   |-> ClusterKey(cluster_data.id),
         size |-> Len(representative_reviews),
         representative_reviews |->
             [i \in 1..Len(representative_reviews) |->
                 Representative(representative_reviews[i])]]

\* the summary the loop body appends for a cluster that has reviews
SummaryOf(cluster_data) ==
    LET cluster_reviews        == Get(cluster_data, "reviews", <<>>)
        representative_reviews == FirstN(cluster_reviews, RepresentativeLimit)
    IN  [id   |-> ClusterKey(cluster_data.id),
         size |-> Len(cluster_reviews),
         representative_reviews |->
             [i \in 1..Len(representative_reviews) |->
                 Representative(representative_reviews[i])]]

\* a loop body without the  if not cluster_reviews: continue
SummariesOfAny(cluster_data) == <<SummaryOf(cluster_data)>>

\* one iteration of the loop: the summaries it appends
SummariesOf(cluster_data) ==
    IF Get(cluster_data, "reviews", <<>>) = <<>> THEN <<>>
    ELSE <<SummaryOf(cluster_data)>>

RECURSIVE SummariesOfAll(_)
SummariesOfAll(items) ==
    IF items = <<>> THEN <<>>
    ELSE SummariesOf(Head(items)) \o SummariesOfAll(Tail(items))

prepare_cluster_summaries(clusters, all_reviews) ==
    IF clusters.type = "dict" THEN SummariesOfAll(clusters.items)
    ELSE LET first == FirstN(all_reviews, RepresentativeLimit)
         IN  <<[id   |-> "cluster_0",
                size |-> Len(all_reviews),
                representative_reviews |->
                    [i \in 1..Len(first) |-> Representative(first[i])]]>>

(***************************************************************************)
(* LLMAnalyzer._create_comprehensive_analysis_prompt                       *)
(***************************************************************************)
Digits == <<"0", "1", "2", "3", "4", "5", "6", "7", "8", "9">>

\* str(n) of a natural number
RECURSIVE Decimal(_)
Decimal(n) ==
    IF n < 10 THEN <<Digits[n + 1]>>
    ELSE Decimal(n \div 10) \o <<Digits[(n % 10) + 1]>>

\* str(v) of the value of a 'text' key
Format(v) == IF IsStr(v) THEN v.s ELSE <<"N", "o", "n", "e">>

\* f"Review {review_counter}: \"{review['text']}\"\n"
FeedbackLine(review_counter, review) ==
    <<"R", "e", "v", "i", "e", "w", " ">> \o Decimal(review_counter)
    \o <<":", " ", "\"">> \o Format(review.text) \o <<"\"", "\n">>

\* the representative reviews of all summaries in the order of the two loops
RECURSIVE AllRepresentatives(_)
AllRepresentatives(clusters) ==
    IF clusters = <<>> THEN <<>>
    ELSE Head(clusters).representative_reviews \o AllRepresentatives(Tail(clusters))

\* a numbering that starts again at 1 with every cluster
RECURSIVE UserFeedbackPerCluster(_)
UserFeedbackPerCluster(clusters) ==
    IF clusters = <<>> THEN <<>>
    ELSE LET rs == Head(clusters).representative_reviews
         IN  Concat([i \in 1..Len(rs) |-> FeedbackLine(i, rs[i])])
             \o UserFeedbackPerCluster(Tail(clusters))

\* user_feedback: review_counter starts at 1 and grows by one with every line
UserFeedback(clusters) ==
    LET rs == AllRepresentatives(clusters)
    IN  Concat([i \in 1..Len(rs) |-> FeedbackLine(i, rs[i])])

\* the values the f-string of the prompt interpolates; the rest of the
\* prompt is fixed text
create_comprehensive_analysis_prompt(analysis_data) ==
    [category      |-> analysis_data.category,
     total_reviews |-> analysis_data.total_reviews,
     user_feedback |-> UserFeedback(analysis_data.clusters)]

(***************************************************************************)
(* LLMAnalyzer._parse_comprehensive_response                               *)
(* The pictograph a section header carries after "## " is kept as one      *)
(* element named by its code point.                                        *)
(***************************************************************************)
InsightsMarker ==
    <<"#", "#", " ", "U+1F4A1", " ", "U", "X", " ",
      "I", "N", "S", "I", "G", "H", "T", "S">>

RecommendationsMarker ==
    <<"#", "#", " ", "U+1F3AF", " ", "U", "X", " ",
      "R", "E", "C", "O", "M", "M", "E", "N", "D", "A", "T", "I", "O", "N", "S">>

SummaryMarker ==
    <<"#", "#", " ", "U+1F4CB", " ", "E", "X", "E", "C", "U", "T", "I", "V", "E", " ",
      "S", "U", "M", "M", "A", "R", "Y">>

\* str.strip() of a line: blanks, tabs, carriage returns and newlines go
IsLineSpace(c) == c \in {" ", "\t", "\r", "\n"}

StripLine(t) ==
    LET keep == {i \in 1..Len(t) : ~IsLineSpace(t[i])}
    IN  IF keep = {} THEN <<>>
        ELSE Slice(t, Min(keep), Len(t) - Min({Len(t) - i : i \in keep}))

\* response.split('\n'): the pieces between the newlines, empty ones included
SplitLines(t) ==
    LET breaks == Ascending({i \in 1..Len(t) : t[i] = "\n"})
        from(k) == IF k = 1 THEN 1 ELSE breaks[k - 1] + 1
        to(k)   == IF k = Len(breaks) + 1 THEN Len(t) ELSE breaks[k] - 1
    IN  [k \in 1..(Len(breaks) + 1) |-> Slice(t, from(k), to(k))]

\* line.startswith(marker)
StartsWith(t, marker) == HasAt(t, 1, marker)

NoSections == [insights |-> <<>>, recommendations |-> <<>>, summary |-> <<>>]

\* a parser that knows the insights header only
SectionOfInsightsOnly(stripped) ==
    IF StartsWith(stripped, InsightsMarker) THEN "insights" ELSE ""

\* the section a header line switches to, "" for any other line
SectionOf(stripped) ==
    IF StartsWith(stripped, InsightsMarker) THEN "insights"
    ELSE IF StartsWith(stripped, RecommendationsMarker) THEN "recommendations"
    ELSE IF StartsWith(stripped, SummaryMarker) THEN "summary"
    ELSE ""

\* the loop over the lines from line k on; current_section "" is None
RECURSIVE ParseLines(_, _, _, _)
ParseLines(lines, k, current_section, sections) ==
    IF k > Len(lines) THEN sections
    ELSE LET stripped == StripLine(lines[k])
         IN  IF SectionOf(stripped) # ""
             THEN ParseLines(lines, k + 1, SectionOf(stripped), sections)
             ELSE IF current_section # "" /\ stripped # <<>>
             THEN ParseLines(lines, k + 1, current_section,
                             [sections EXCEPT ![current_section] = @ \o stripped \o <<"\n">>])
             ELSE ParseLines(lines, k + 1, current_section, sections)

\* a parser without the fallback for a response it found no section in
parse_comprehensive_response_strict(response) ==
    ParseLines(SplitLines(response), 1, "", NoSections)

\* a parser that files the lines before the first header under insights
parse_comprehensive_response_lines(response) ==
    ParseLines(SplitLines(response), 1, "insights", NoSections)

\* a parser that falls back only when it met no header line
parse_comprehensive_response_no_marker(response) ==
    LET lines == SplitLines(response)
    IN  IF \E k \in 1..Len(lines) : SectionOf(StripLine(lines[k])) # ""
        THEN ParseLines(lines, 1, "", NoSections)
        ELSE [NoSections EXCEPT !.insights = response]

parse_comprehensive_response(response) ==
    LET sections == ParseLines(SplitLines(response), 1, "", NoSections)
    IN  IF sections.insights = <<>> /\ sections.recommendations = <<>>
           /\ sections.summary = <<>>
        THEN [sections EXCEPT !.insights = response]
        ELSE sections

(***************************************************************************)
(* LLMAnalyzer._call_llm and generate_recommendations                      *)
(***************************************************************************)
\* the behaviours of the client: self.llm is None, llm.invoke raises after
\* one request, llm.invoke raises after the client repeated the request as
\* often as its max_retries allows, or llm.invoke returns a message with the
\* given content
NoClient == [kind |-> "none"]

Fails == [kind |-> "fails", retrying |-> FALSE]

FailsRetrying == [kind |-> "fails", retrying |-> TRUE]

Responds(content) == [kind |-> "responds", content |-> content]

\* the error llm.invoke raises when the request fails
ClientError == [type |-> "MistralError", message |-> "API call failed"]

\* the default of llm_config.get('max_retries', 3)
DefaultMaxRetries == 3

\* the max_retries ChatMistralAI is constructed with
ClientMaxRetries(llm_config) == Get(llm_config, "max_retries", DefaultMaxRetries)

\* the requests the client sends for one llm.invoke(prompt): a client that
\* repeats a failed request stops after max_retries attempts
ClientRequests(prompt, behaviour, llm_config) ==
    IF behaviour.kind = "fails" /\ behaviour.retrying /\ ClientMaxRetries(llm_config) > 1
    THEN [i \in 1..ClientMaxRetries(llm_config) |-> prompt]
    ELSE <<prompt>>

\* a _call_llm that raises an error of its own in place of the client's
call_llm_wrapped(prompt, behaviour, llm_config) ==
    IF behaviour.kind = "none"
    THEN Raise("Exception", "LangChain Mistral client not initialized")
         @@ [requests |-> <<>>, invocations |-> 0]
    ELSE IF behaviour.kind = "fails"
    THEN Raise("Exception", "LLM call failed")
         @@ [requests |-> ClientRequests(prompt, behaviour, llm_config), invocations |-> 1]
    ELSE Return(behaviour.content) @@ [requests |-> <<prompt>>, invocations |-> 1]

\* _call_llm: the outcome, the number of calls of llm.invoke and the
\* requests the client sent for them
call_llm(prompt, behaviour, llm_config) ==
    IF behaviour.kind = "none"
    THEN Raise("Exception", "LangChain Mistral client not initialized")
         @@ [requests |-> <<>>, invocations |-> 0]
    ELSE IF behaviour.kind = "fails"
    THEN Raise(ClientError.type, ClientError.message)
         @@ [requests |-> ClientRequests(prompt, behaviour, llm_config), invocations |-> 1]
    ELSE Return(behaviour.content) @@ [requests |-> <<prompt>>, invocations |-> 1]

\* generate_recommendations(processed_data, clustering_results, category)
\* with a client of the given behaviour; generation_timestamp is left out
generate_recommendations(processed, clustering_results, category, behaviour, llm_config) ==
    LET reviews         == Get(processed, "reviews", <<>>)
        clusters        == Get(clustering_results, "clusters", [clusters |-> <<>>])
        actual_clusters == Dict(Get(clusters, "clusters", <<>>))
        analysis_data   ==
            [category           |-> category,
             total_reviews      |-> Len(reviews),
             clusters           |-> prepare_cluster_summaries(actual_clusters, reviews),
             cluster_statistics |-> Get(clustering_results, "cluster_analysis", EmptyDict)]
        prompt   == create_comprehensive_analysis_prompt(analysis_data)
        response == call_llm(prompt, behaviour, llm_config)
    IN  IF response.raised
        THEN Raise(response.error.type, response.error.message)
             @@ [requests |-> response.requests, invocations |-> response.invocations]
        ELSE LET parsed == parse_comprehensive_response(response.value)
             IN  Return([insights        |-> parsed.insights,
                         recommendations |-> parsed.recommendations,
                         summary         |-> parsed.summary,
                         analysis_data   |-> analysis_data])
                 @@ [requests |-> response.requests, invocations |-> response.invocations]

(***************************************************************************)
(* GooglePlayDiscoverer.  A category, a keyword and an app id are strings; *)
(* the store maps a keyword to what google_play_scraper.search does for    *)
(* it: it fails, or it finds a list of hits.                               *)
(***************************************************************************)
SearchFails == [failed |-> TRUE]

SearchFinds(hits) == [failed |-> FALSE, hits |-> hits]

\* _get_category_keywords: the keyword list it returns and the configuration
\* it leaves.  The list is the object the configuration holds, and insert()
\* changes it in place; the list [category] of the default is a new object.
get_category_keywords(category, configuration) ==
    LET categories_config == Get(configuration, "categories", EmptyDict)
        category_config   == Get(categories_config, category, EmptyDict)
    IN  IF "keywords" \notin DOMAIN category_config
        THEN [keywords |-> <<category>>, config |-> configuration]
        ELSE LET keywords == category_config.keywords
             IN  IF \E i \in 1..Len(keywords) : keywords[i] = category
                 THEN [keywords |-> keywords, config |-> configuration]
                 ELSE [keywords |-> <<category>> \o keywords,
                       config   |-> [configuration EXCEPT
                                        !.categories[category].keywords =
                                            <<category>> \o keywords]]

\* _search_apps_by_keyword: search(keyword, n_hits=limit) returns at most
\* limit hits; a hit without 'appId' or 'title' raises KeyError
search_apps_by_keyword(keyword, limit, store) ==
    IF store[keyword].failed THEN Raise("Exception", "search failed")
    ELSE LET found == FirstN(store[keyword].hits, limit)
         IN  IF \E i \in 1..Len(found) : "appId" \notin DOMAIN found[i]
             THEN Raise("KeyError", "appId")
             ELSE Return([i \in 1..Len(found) |->
                             [app_id   |-> found[i].appId,
                              name     |-> found[i].title,
                              platform |-> "google_play"]])

\* the loop over the keywords from keyword k on: a failed search is logged
\* and the loop goes on with the next keyword
RECURSIVE SearchKeywords(_, _, _, _, _)
SearchKeywords(keywords, k, apps, limit, store) ==
    IF k > Len(keywords) \/ Len(apps) >= limit THEN apps
    ELSE LET keyword_apps == search_apps_by_keyword(keywords[k], limit - Len(apps), store)
         IN  IF keyword_apps.raised
             THEN SearchKeywords(keywords, k + 1, apps, limit, store)
             ELSE SearchKeywords(keywords, k + 1, apps \o keyword_apps.value, limit, store)

\* a _remove_duplicates that keeps the last app of every app_id
remove_duplicates_last(apps) ==
    LET kept == Ascending({i \in 1..Len(apps) :
                             /\ apps[i].app_id # ""
                             /\ \A j \in (i + 1)..Len(apps) : apps[j].app_id # apps[i].app_id})
    IN  [k \in 1..Len(kept) |-> apps[kept[k]]]

\* _remove_duplicates: an app is kept when its app_id is not empty and was
\* not seen before
remove_duplicates(apps) ==
    LET kept == Ascending({i \in 1..Len(apps) :
                             /\ apps[i].app_id # ""
                             /\ \A j \in 1..(i - 1) : apps[j].app_id # apps[i].app_id})
    IN  [k \in 1..Len(kept) |-> apps[kept[k]]]

\* discover_apps: its outcome and the configuration it leaves
discover_apps(category, limit, store, configuration) ==
    LET got         == get_category_keywords(category, configuration)
        apps        == SearchKeywords(got.keywords, 1, <<>>, limit, store)
        unique_apps == remove_duplicates(apps)
    IN  [outcome |-> Return(FirstN(unique_apps, limit)), config |-> got.config]

(***************************************************************************)
(* streamlit_app.display_cluster_details                                   *)
(***************************************************************************)
SampleLimit == 10

\* the labels in the order of their first occurrence among the first n
\* positions of cluster_labels
LabelsInOrder(cluster_labels, n) ==
    LET first == Ascending({i \in 1..n :
                              \A j \in 1..(i - 1) : cluster_labels[j] # cluster_labels[i]})
    IN  [k \in 1..Len(first) |-> cluster_labels[first[k]]]

\* the expanders display_cluster_details renders: reviews_data[i] goes to the
\* group of cluster_labels[i] for every i below len(reviews_data)
display_cluster_details(clusters_data, reviews_data) ==
    IF clusters_data = EmptyDict \/ "clusters" \notin DOMAIN clusters_data THEN <<>>
    ELSE LET cluster_labels == Get(clusters_data.clusters, "cluster_labels", <<>>)
             n       == IF Len(cluster_labels) < Len(reviews_data)
                        THEN Len(cluster_labels) ELSE Len(reviews_data)
             labels  == LabelsInOrder(cluster_labels, n)
             grouped(label) == Ascending({i \in 1..n : cluster_labels[i] = label})
         IN  [k \in 1..Len(labels) |->
                LET at == grouped(labels[k])
                    cluster_reviews == [m \in 1..Len(at) |-> reviews_data[at[m]]]
                IN  [cluster_id      |-> labels[k],
                     cluster_reviews |-> cluster_reviews,
                     sample_reviews  |-> FirstN(cluster_reviews, SampleLimit)]]

(***************************************************************************)
(* UXAnalyzer.analyze_category.  The scraper maps an app id to what        *)
(* get_app_reviews does for it: it fails, or it returns a list of reviews. *)
(* The 'rating' of these reviews is an int or None.                        *)
(***************************************************************************)
PyInt(n) == [type |-> "int", n |-> n]

ScraperFails == [failed |-> TRUE]

ScraperReturns(reviews) == [failed |-> FALSE, reviews |-> reviews]

\* step 2: the reviews of the apps in the order of the apps; an app whose
\* reviews cannot be fetched is logged and left out
collect_reviews(apps, scraper) ==
    Concat([i \in 1..Len(apps) |->
               IF scraper[apps[i].app_id].failed THEN <<>>
               ELSE scraper[apps[i].app_id].reviews])

\* generate_metadata: the sum of the ratings raises TypeError when the
\* rating of a review is None
MetadataRaises(reviews) ==
    \E i \in 1..Len(reviews) :
        "rating" \in DOMAIN reviews[i] /\ reviews[i].rating.type = "NoneType"

\* the outcome of process_reviews: what its steps return, or the error one
\* of them raised, which its except clause raises again
ProcessReviewsOutcome(reviews, processing_config, toolkit, sentiment_lib) ==
    LET processed == process_reviews(reviews, processing_config, toolkit, sentiment_lib)
    IN  IF MetadataRaises(processed.reviews)
        THEN Raise("TypeError", "unsupported operand type(s) for +: 'int' and 'NoneType'")
        ELSE Return(processed)

\* an analyze_category that returns what it has when the generation failed
category_results_partial(category, apps, all_reviews, processed, clusters, generated) ==
    Return([category          |-> category,
            apps_discovered   |-> apps,
            reviews_collected |-> all_reviews,
            processed_data    |-> processed,
            clusters          |-> clusters,
            recommendations   |-> IF generated.raised THEN EmptyDict ELSE generated.value,
            metadata          |-> EmptyDict])

\* the end of analyze_category after step 5: the error of the generation is
\* raised again; otherwise the results are returned with their metadata,
\* where clusters is the dict analyze returned
category_results(category, apps, all_reviews, processed, clusters, generated) ==
    IF generated.raised THEN Raise(generated.error.type, generated.error.message)
    ELSE Return([category          |-> category,
                 apps_discovered   |-> apps,
                 reviews_collected |-> all_reviews,
                 processed_data    |-> processed,
                 clusters          |-> clusters,
                 recommendations   |-> generated.value,
                 metadata          |-> [total_apps     |-> Len(apps),
                                        total_reviews  |-> Len(all_reviews),
                                        clusters_found |-> Cardinality(DOMAIN clusters)]])

(***************************************************************************)
(* Inputs.                                                                 *)
(***************************************************************************)
\* the sequences of at most n elements of S
SeqsUpTo(S, n) == UNION {[1..k -> S] : k \in 0..n}

ToolkitModes == {"full", "basic", "broken"}

\* the pieces the texts handed to clean_text are built of
TextFragments ==
    {<<"h", "t", "t", "p", ":", "/", "/">>, <<"a">>, <<"B">>, <<" ">>, <<"\t">>,
     <<"@">>, <<"#">>, <<"/">>}

Texts == {Concat(fs) : fs \in SeqsUpTo(TextFragments, MaxFrags)}

\* the pieces the raw review texts of the clean_reviews specification are built of
RawFragments == {<<"a", "b">>, <<" ">>, <<"#">>, <<"@">>}

RawTexts == {Concat(fs) : fs \in SeqsUpTo(RawFragments, MaxRawFrags)}

\* a review without a 'text' key, with a text that is None, and a list
\* element that is no dict
MalformedReviews == {[id |-> 0], [id |-> 0, text |-> PyNone], PyNone}

RawBatches ==
    {<<[id |-> 0, text |-> Str(t)]>> : t \in RawTexts} \cup {<<r>> : r \in MalformedReviews}

RawConfigs ==
    [min_review_length : {0, 2, 3}, max_review_length : {3, 5}, min_word_count : {0, 1, 2}]

\* the raw texts of the pipeline specification:
\* "love app", "Love it#", "bad app  ", "ok"
PipelineTexts ==
    {<<"l", "o", "v", "e", " ", "a", "p", "p">>,
     <<"L", "o", "v", "e", " ", "i", "t", "#">>,
     <<"b", "a", "d", " ", "a", "p", "p", " ", " ">>,
     <<"o", "k">>}

PipelineTextValues == {Str(t) : t \in PipelineTexts} \cup {PyNone}

\* a batch of the pipeline: review i carries id i
PipelineBatches ==
    {[i \in 1..Len(ts) |-> [id |-> i - 1, text |-> ts[i]]] :
        ts \in SeqsUpTo(PipelineTextValues, MaxBatch)}

PipelineConfigs ==
    {[data_processing |-> [min_review_length |-> m, max_review_length |-> 8,
                           min_word_count |-> 1],
      clustering      |-> c] :
        m \in {0, 5},
        c \in {[n_clusters |-> 2], [n_clusters |-> 3], EmptyDict}}

\* the words of the review texts of the keyword specification
KwWords == {<<"c", "r", "a", "s", "h">>, <<"b", "u", "g", "s">>,
            <<"t", "h", "i", "s">>, <<"o", "k">>}

RECURSIVE JoinWords(_)
JoinWords(ws) ==
    IF ws = <<>> THEN <<>>
    ELSE IF Len(ws) = 1 THEN ws[1]
    ELSE ws[1] \o <<" ">> \o JoinWords(Tail(ws))

\* the texts of n words that repeat a phrase of PhraseLen words
KwTexts ==
    {JoinWords([i \in 1..n |-> phrase[((i - 1) % PhraseLen) + 1]]) :
        phrase \in [1..PhraseLen -> KwWords], n \in 0..MaxWords}

KwConfigs ==
    {[data_processing |-> EmptyDict, clustering |-> EmptyDict],
     [data_processing |-> [min_review_length |-> 0, min_word_count |-> 0],
      clustering      |-> EmptyDict]}

\* the texts of the keyword-table specification: two reviews that share three
\* of their words and hold twelve words between them, a review that repeats
\* a word, and a review too short for the default min_review_length
TableTexts ==
    {JoinWords(<<<<"c", "r", "a", "s", "h">>, <<"b", "u", "g", "s">>,
                 <<"s", "l", "o", "w">>, <<"s", "y", "n", "c">>,
                 <<"l", "o", "g", "i", "n">>, <<"m", "a", "p", "s">>>>),
     JoinWords(<<<<"s", "y", "n", "c">>, <<"l", "o", "g", "i", "n">>,
                 <<"m", "a", "p", "s">>, <<"f", "o", "n", "t">>,
                 <<"m", "e", "n", "u">>, <<"d", "a", "r", "k">>,
                 <<"m", "o", "d", "e">>, <<"f", "a", "s", "t">>,
                 <<"l", "o", "v", "e">>>>),
     JoinWords(<<<<"l", "o", "v", "e">>, <<"f", "a", "s", "t">>,
                 <<"l", "o", "v", "e">>, <<"t", "h", "i", "s">>,
                 <<"c", "r", "a", "s", "h">>>>),
     JoinWords(<<<<"s", "l", "o", "w">>, <<"s", "y", "n", "c">>>>)}

TableBatches ==
    {[i \in 1..Len(ts) |-> [id |-> i - 1, text |-> Str(ts[i])]] :
        ts \in SeqsUpTo(TableTexts, MaxTableBatch)}

\* the behaviours of the client in the pipeline specification: a failed
\* call and a reply with one header
PipelineReplies == {Fails, Responds(InsightsMarker \o <<"\n", "o", "k">>)}

\* a text of n characters: two words of four letters and a long one
LongText(n) == [i \in 1..n |-> IF i \in {5, 10} THEN " " ELSE "a"]

\* the texts of the defaults specification: of 20 characters, of 19
\* characters, of two words, of 1000 and of 1001 characters
DefaultsTexts ==
    [exact  |-> JoinWords(<<<<"s", "l", "o", "w">>, <<"s", "y", "n", "c">>,
                            <<"m", "a", "p", "s">>, <<"l", "o", "g", "i", "n">>>>),
     other  |-> JoinWords(<<<<"f", "a", "s", "t">>, <<"s", "y", "n", "c">>,
                            <<"m", "a", "p", "s">>, <<"l", "o", "g", "i", "n">>>>),
     short  |-> JoinWords(<<<<"s", "l", "o", "w">>, <<"s", "y", "n", "c">>,
                            <<"m", "a", "p", "s">>, <<"m", "e", "n", "u">>>>),
     twoword |-> JoinWords(<<<<"s", "l", "o", "w">> \o <<"s", "l", "o", "w">>
                               \o <<"s", "l", "o", "w">>,
                             <<"s", "y", "n", "c">> \o <<"s", "y", "n", "c">>
                               \o <<"s", "y", "n", "c">>>>),
     menu    |-> JoinWords(<<<<"s", "l", "o", "w">>, <<"m", "e", "n", "u">>,
                            <<"d", "a", "r", "k">>, <<"m", "o", "d", "e", "s">>>>),
     longest |-> LongText(1000),
     toolong |-> LongText(1001)]

\* a batch of the given texts: review i carries id i - 1
BatchOf(names) ==
    [i \in 1..Len(names) |-> [id |-> i - 1, text |-> Str(DefaultsTexts[names[i]])]]

\* the batches of the defaults specification: one text of every short kind,
\* and the batches that leave one of them out
DefaultsBatches ==
    LET all == <<"exact", "short", "twoword", "other">>
    IN  {BatchOf(all)}
        \cup {BatchOf(SelectSeq(all, LAMBDA name : name # left)) :
                 left \in {all[i] : i \in 1..Len(all)}}

\* a batch with the texts of 1000 and of 1001 characters
LongBatch == BatchOf(<<"exact", "longest", "other", "toolong">>)

\* the configurations the long batch is processed under
LongConfigs ==
    {EmptyDict,
     [data_processing |-> [min_review_length |-> 5], clustering |-> [n_clusters |-> 2]],
     [data_processing |-> [max_review_length |-> 30], clustering |-> [n_clusters |-> 2]]}

\* a batch of which eight reviews pass the default filters
EightRowBatch ==
    BatchOf(<<"exact", "other", "short", "exact", "other", "twoword", "exact", "other",
              "exact", "other">>)

\* the configurations of the defaults specification: every key missing, the
\* sections present and empty, and every key set
DefaultsProcessing ==
    {EmptyDict, [data_processing |-> EmptyDict],
     [data_processing |-> [min_review_length |-> 5]],
     [data_processing |-> [max_review_length |-> 30]],
     [data_processing |-> [min_word_count |-> 1]],
     [data_processing |-> [min_review_length |-> 5, max_review_length |-> 30,
                           min_word_count |-> 1]]}

DefaultsClustering ==
    {EmptyDict, [clustering |-> EmptyDict],
     [clustering |-> [n_clusters |-> 2]],
     [clustering |-> [n_clusters |-> 2, feature_extraction |-> EmptyDict]],
     [clustering |-> [n_clusters |-> 2, feature_extraction |-> [max_features |-> 2]]],
     [clustering |-> [n_clusters |-> 2, feature_extraction |-> [ngram_range |-> <<1, 1>>]]],
     [clustering |-> [feature_extraction |-> [max_features |-> 2, ngram_range |-> <<2, 2>>]]]}

DefaultsConfigs == {p @@ c : p \in DefaultsProcessing, c \in DefaultsClustering}

\* the label vectors of eight rows the defaults specification starts from:
\* every row a cluster of its own, two clusters, and one cluster
EightRowLabels ==
    {[i \in 1..8 |-> i - 1], [i \in 1..8 |-> i % 2], [i \in 1..8 |-> 7]}

\* the behaviours of the client in the client specification
ClientBehaviours == {NoClient, Fails, FailsRetrying, Responds(<<"o", "k">>)}

\* the configurations of the client specification: no llm_analysis section,
\* one without max_retries, and sections that set max_retries
ClientConfigs ==
    {EmptyDict, [llm_analysis |-> EmptyDict], [llm_analysis |-> [max_retries |-> 0]],
     [llm_analysis |-> [max_retries |-> 1]], [llm_analysis |-> [max_retries |-> 2]]}

\* the category handed to generate_recommendations
Category == "fitness"

\* the reviews of the summary specification: review i carries id i - 1, a
\* rating, an author and the text "love r<i>" or "bad r<i>"
SummaryBatch(n) ==
    [i \in 1..n |->
        [id |-> i - 1, rating |-> 5, author |-> "user",
         text |-> Str((IF i % 2 = 0 THEN <<"l", "o", "v", "e">> ELSE <<"b", "a", "d">>)
                      \o <<" ", "r">> \o Decimal(i))]]

SummaryConfig ==
    [data_processing |-> [min_review_length |-> 0, min_word_count |-> 0],
     clustering      |-> [n_clusters |-> 2]]

\* the label vectors of the summary specification: one cluster, two
\* alternating clusters, one review apart from the others
SummaryLabels(n) ==
    {[i \in 1..n |-> 0], [i \in 1..n |-> i % 2]}
    \cup {[i \in 1..n |-> IF i = j THEN 0 ELSE 1] : j \in 1..n}

\* the results of analyze the summary specification starts from
SummaryAnalyses(processed) ==
    {o \in analyze(processed, SummaryConfig.clustering) :
        o.raised \/ o.value.clusters.cluster_labels
                        \in SummaryLabels(Len(processed.reviews))}

\* a clustering result with a cluster that has no member, which the
\* ClusterAnalyzer never builds and the LLMAnalyzer guards against
WithEmptyCluster(outcome) ==
    IF outcome.raised THEN outcome
    ELSE LET empty == [id |-> 9, size |-> 0, reviews |-> <<>>, texts |-> <<>>,
                       indices |-> <<>>]
         IN  [outcome EXCEPT !.value.clusters.clusters = <<empty>> \o @]

\* the lines of the replies of the parser specification: the three headers
\* as the prompt asks for them, a header with blanks before and text after
\* it, and the header "## RECOMMENDATIONS"
HeaderLines ==
    {InsightsMarker, RecommendationsMarker, SummaryMarker,
     <<" ", " ">> \o InsightsMarker \o <<":", " ", "x">>,
     <<"#", "#", " ", "R", "E", "C", "O", "M", "M", "E", "N", "D", "A", "T", "I", "O", "N", "S">>}

\* the lines that follow a header: none, or a line with blanks around it,
\* an empty line and one more line
BodyLines == {<<>>, <<<<" ", "b", "\t">>, <<>>, <<"a">>>>}

RECURSIVE JoinLines(_)
JoinLines(ls) ==
    IF ls = <<>> THEN <<>>
    ELSE IF Len(ls) = 1 THEN ls[1]
    ELSE ls[1] \o <<"\n">> \o JoinLines(Tail(ls))

\* the lines of a reply: a first block of lines, then sections of a header and a block
ReplyLines(first, sections) ==
    first \o Concat([i \in 1..Len(sections) |-> <<sections[i][1]>> \o sections[i][2]])

Replies ==
    {JoinLines(ReplyLines(first, sections)) :
        first \in BodyLines, sections \in SeqsUpTo(HeaderLines \X BodyLines, MaxSections)}

\* the texts of the feature specification
FeatureTexts ==
    {<<"l", "o", "v", "e", " ", "i", "t">>, <<"b", "a", "d", " ", "a", "p", "p", "s">>,
     <<"n", "o", " ", "e", "s", " ", "t", "h", "e">>, <<"t", "h", "e", " ", "e", "n", "d">>,
     <<"L", "a", " ", "l", "a", " ", "B", "y">>, <<>>}

FeatureConfigs ==
    {[min_review_length |-> 0, min_word_count |-> 0] @@ c @@ d :
        c \in {EmptyDict, [sentiment_analysis |-> TRUE], [sentiment_analysis |-> FALSE]},
        d \in {EmptyDict, [language_detection |-> FALSE]}}

\* the category of the discovery specification and the keywords its
\* configuration may list
DiscoverCategory == "travel"

DiscoverKeywords == {"travel", "flights", "hotels"}

\* the hits of a search: an app id each, the empty one among them, and a
\* title that tells which search found it at which position
HitsOf(keyword, ids) ==
    [i \in 1..Len(ids) |-> [appId |-> ids[i], title |-> <<keyword, i>>]]

SearchBehaviours(keyword) ==
    {SearchFails}
    \cup {SearchFinds(HitsOf(keyword, ids)) : ids \in SeqsUpTo({"a", "b"}, MaxHits)}
    \cup {SearchFinds(HitsOf(keyword, <<"", "c">>))}

\* the stores: what the search does for every keyword
Stores ==
    {[travel |-> t, flights |-> f, hotels |-> h] :
        t \in SearchBehaviours("travel"),
        f \in SearchBehaviours("flights"),
        h \in {SearchFails, SearchFinds(HitsOf("hotels", <<"c", "a">>))}}

\* the sections GooglePlayDiscoverer.__init__ reads
StoreSettings ==
    [app_stores    |-> [google_play |-> [enabled |-> TRUE, country |-> "us",
                                         language |-> "en",
                                         max_apps_per_category |-> 50]],
     rate_limiting |-> [requests_per_minute |-> 30, delay_between_requests |-> 2],
     clustering    |-> [n_clusters |-> 2]]

\* the configurations of the discovery specification: no categories, a
\* category without keywords, and keyword lists with and without the
\* category name
DiscoverConfigs ==
    {StoreSettings, StoreSettings @@ [categories |-> EmptyDict],
     StoreSettings @@ [categories |-> [travel |-> EmptyDict]]}
    \cup {StoreSettings @@ [categories |-> [travel |-> [keywords |-> keywords]]] :
             keywords \in {<<"flights">>, <<"flights", "hotels">>,
                           <<"hotels", "travel", "flights">>}}

DiscoverRequests ==
    {[category |-> DiscoverCategory, limit |-> limit, store |-> store] :
        limit \in 0..MaxLimit, store \in Stores}

\* the batches of the display specification: three reviews that pass the
\* default filters and, at every position, reviews that do not
DisplayBatches ==
    {BatchOf(names) :
        names \in {<<"exact", "other", "menu">>,
                   <<"short", "exact", "other", "menu">>,
                   <<"exact", "short", "other", "menu">>,
                   <<"exact", "other", "short", "menu">>,
                   <<"exact", "other", "menu", "short">>,
                   <<"twoword", "exact", "short", "other", "menu">>}}

\* the reviews the scraper returns for an app: review i of the given texts
\* and ratings
AppReviews(app_id, names, ratings) ==
    [i \in 1..Len(names) |->
        [review_id |-> <<app_id, i>>, text |-> Str(DefaultsTexts[names[i]]),
         rating |-> ratings[i], platform |-> "google_play", app_id |-> app_id]]

\* what the scraper does for the apps of the category specification
Scrapers ==
    {[a |-> forA, b |-> forB] :
        forA \in {ScraperFails,
                  ScraperReturns(AppReviews("a", <<"exact", "other">>,
                                            <<PyInt(5), PyInt(1)>>)),
                  ScraperReturns(AppReviews("a", <<"short", "exact", "other">>,
                                            <<PyInt(2), PyInt(4), PyNone>>))},
        forB \in {ScraperFails,
                  ScraperReturns(AppReviews("b", <<"menu">>, <<PyInt(3)>>)),
                  ScraperReturns(AppReviews("b", <<"short", "menu">>,
                                            <<PyInt(3), PyInt(5)>>))}}

\* the analyze_category calls of the category specification
CategoryRequests ==
    {[category |-> DiscoverCategory, limit |-> 2,
      store    |-> [travel |-> t, flights |-> SearchFails, hotels |-> SearchFails],
      scraper  |-> scraper] :
        t \in {SearchFails, SearchFinds(HitsOf("travel", <<"a", "b">>)),
               SearchFinds(HitsOf("travel", <<"a">>))},
        scraper \in Scrapers}

\* the requests of the specification of the three calls
FrameRequests ==
    {[category |-> DiscoverCategory, limit |-> 2,
      store    |-> [travel |-> t, flights |-> f, hotels |-> SearchFails]] :
        t \in {SearchFails, SearchFinds(HitsOf("travel", <<"a">>))},
        f \in {SearchFails, SearchFinds(HitsOf("flights", <<"a", "b">>))}}

\* the batch of the discovery specification: two reviews that pass the filters
DiscoverBatch == BatchOf(<<"exact", "other">>)

(***************************************************************************)
(* Initial states.                                                         *)
(***************************************************************************)
\* the sections of the configuration the components read in __init__
ProcessingConfig == Get(config, "data_processing", EmptyDict)

ClusteringConfig == Get(config, "clustering", EmptyDict)

LlmConfig == Get(config, "llm_analysis", EmptyDict)

\* no discover_apps call is to be made
NoRequest == [category |-> "", limit |-> 0, store |-> <<>>]

NoCalls ==
    /\ once = NotCalled
    /\ twice = NotCalled
    /\ cleaned = NotCalled
    /\ extracted = NotCalled
    /\ processed_data = NotCalled
    /\ analysis = NotCalled
    /\ reanalysis = NotCalled
    /\ recommendations = NotCalled
    /\ discovered = NotCalled
    /\ displayed = NotCalled
    /\ results = NotCalled
    /\ pc = "idle"

\* the pipeline: a batch of raw reviews and a configuration
Init ==
    /\ text = <<>>
    /\ nltk \in ToolkitModes
    /\ textblob = "available"
    /\ llm = PipelineReplies
    /\ config \in PipelineConfigs
    /\ batch \in PipelineBatches
    /\ request = NoRequest
    /\ NoCalls

\* a text for clean_text
InitText ==
    /\ text \in Texts
    /\ nltk = "basic"
    /\ textblob = "available"
    /\ llm = PipelineReplies
    /\ config = [data_processing |-> EmptyDict, clustering |-> EmptyDict]
    /\ batch = <<>>
    /\ request = NoRequest
    /\ NoCalls

\* one raw review for clean_reviews
InitClean ==
    /\ text = <<>>
    /\ nltk \in ToolkitModes
    /\ textblob = "available"
    /\ llm = PipelineReplies
    /\ config \in {[data_processing |-> c, clustering |-> EmptyDict] : c \in RawConfigs}
    /\ batch \in RawBatches
    /\ request = NoRequest
    /\ NoCalls

\* one review of many words for process_reviews
InitKw ==
    /\ text = <<>>
    /\ nltk \in ToolkitModes
    /\ textblob = "available"
    /\ llm = PipelineReplies
    /\ config \in KwConfigs
    /\ batch \in {<<[id |-> 0, text |-> Str(t)]>> : t \in KwTexts}
    /\ request = NoRequest
    /\ NoCalls

\* one review for extract_features under every state of the two libraries
InitFeatures ==
    /\ text = <<>>
    /\ nltk \in ToolkitModes
    /\ textblob \in SentimentModes
    /\ llm = PipelineReplies
    /\ config \in {[data_processing |-> c, clustering |-> EmptyDict] : c \in FeatureConfigs}
    /\ batch \in {<<[id |-> 0, text |-> Str(t)]>> : t \in FeatureTexts}
                    \cup {<<r>> : r \in MalformedReviews}
    /\ request = NoRequest
    /\ NoCalls

\* a batch of reviews of many keywords under the default filters
InitTable ==
    /\ text = <<>>
    /\ nltk \in ToolkitModes
    /\ textblob = "available"
    /\ llm = PipelineReplies
    /\ config = [data_processing |-> EmptyDict, clustering |-> [n_clusters |-> 2]]
    /\ batch \in TableBatches
    /\ request = NoRequest
    /\ NoCalls

\* the state after process_reviews and analyze ran on a batch of up to
\* MaxMembers reviews, for generate_recommendations
InitSummary ==
    /\ text = <<>>
    /\ nltk = "basic"
    /\ textblob = "available"
    /\ llm = {NoClient, Responds(<<"o", "k">>)}
    /\ config = SummaryConfig
    /\ batch \in {SummaryBatch(n) : n \in 0..MaxMembers}
    /\ once = NotCalled
    /\ twice = NotCalled
    /\ cleaned = NotCalled
    /\ extracted = NotCalled
    /\ processed_data = Called(process_reviews(batch, ProcessingConfig, nltk, textblob))
    /\ \E o \in SummaryAnalyses(processed_data.value) :
          analysis \in {Called(o), Called(WithEmptyCluster(o))}
    /\ reanalysis = NotCalled
    /\ recommendations = NotCalled
    /\ request = NoRequest
    /\ discovered = NotCalled
    /\ displayed = NotCalled
    /\ results = NotCalled
    /\ pc = "analyzed"

\* a discoverer, a DataProcessor and a ClusterAnalyzer constructed on one
\* configuration
InitDiscover ==
    /\ text = <<>>
    /\ nltk = "basic"
    /\ textblob = "available"
    /\ llm = PipelineReplies
    /\ config \in DiscoverConfigs
    /\ batch = DiscoverBatch
    /\ request \in DiscoverRequests
    /\ NoCalls

\* a UXAnalyzer constructed on a configuration, before analyze_category
InitCategory ==
    /\ text = <<>>
    /\ nltk = "basic"
    /\ textblob = "available"
    /\ llm = PipelineReplies
    /\ config \in {StoreSettings,
                    [StoreSettings EXCEPT !.app_stores.google_play.enabled = FALSE]}
    /\ batch = <<>>
    /\ request \in CategoryRequests
    /\ NoCalls

\* the dashboard has collected all_reviews
InitDisplay ==
    /\ text = <<>>
    /\ nltk \in {"basic", "full"}
    /\ textblob = "available"
    /\ llm = {Responds(<<"o", "k">>)}
    /\ config = [clustering |-> [n_clusters |-> 2]]
    /\ batch \in DisplayBatches
    /\ request = NoRequest
    /\ NoCalls

\* as InitDiscover, with the batches the DataProcessor drops reviews of
InitFrame ==
    /\ text = <<>>
    /\ nltk = "basic"
    /\ textblob = "available"
    /\ llm = PipelineReplies
    /\ config \in DiscoverConfigs
    /\ batch \in DefaultsBatches
    /\ request \in FrameRequests
    /\ NoCalls

\* a batch of texts at the default thresholds under a configuration with
\* keys missing
InitDefaultsIdle ==
    /\ text = <<>>
    /\ nltk = "basic"
    /\ textblob = "available"
    /\ llm = {Responds(<<"o", "k">>)}
    /\ \/ config \in DefaultsConfigs /\ batch \in DefaultsBatches
       \/ config \in LongConfigs /\ batch = LongBatch
    /\ request = NoRequest
    /\ NoCalls

\* the state after process_reviews and analyze ran on eight rows under a
\* configuration without n_clusters
InitDefaultsAnalyzed ==
    /\ text = <<>>
    /\ nltk = "basic"
    /\ textblob = "available"
    /\ llm = {Responds(<<"o", "k">>)}
    /\ config \in {EmptyDict, [clustering |-> EmptyDict],
                    [data_processing |-> EmptyDict,
                     clustering |-> [feature_extraction |-> EmptyDict]]}
    /\ batch = EightRowBatch
    /\ once = NotCalled
    /\ twice = NotCalled
    /\ cleaned = NotCalled
    /\ extracted = NotCalled
    /\ processed_data = Called(process_reviews(batch, ProcessingConfig, nltk, textblob))
    /\ LET reviews == processed_data.value.reviews
           texts   == processed_data.value.structured_data.texts
       IN  analysis \in {Called(AnalysisOf(reviews, texts, ClusteringConfig,
                                           features.value, labels)) :
                             features \in extract_tfidf_features(texts, ClusteringConfig),
                             labels \in EightRowLabels}
    /\ reanalysis = NotCalled
    /\ recommendations = NotCalled
    /\ request = NoRequest
    /\ discovered = NotCalled
    /\ displayed = NotCalled
    /\ results = NotCalled
    /\ pc = "analyzed"

InitDefaults == InitDefaultsIdle \/ InitDefaultsAnalyzed

\* the state after process_reviews and analyze ran, with a client built
\* from one of the llm_analysis configurations
InitClient ==
    /\ text = <<>>
    /\ nltk = "basic"
    /\ textblob = "available"
    /\ llm = ClientBehaviours
    /\ config \in {SummaryConfig @@ c : c \in ClientConfigs}
    /\ batch \in {SummaryBatch(n) : n \in 0..MaxClientBatch}
    /\ once = NotCalled
    /\ twice = NotCalled
    /\ cleaned = NotCalled
    /\ extracted = NotCalled
    /\ processed_data = Called(process_reviews(batch, ProcessingConfig, nltk, textblob))
    /\ analysis \in {Called(o) : o \in SummaryAnalyses(processed_data.value)}
    /\ reanalysis = NotCalled
    /\ recommendations = NotCalled
    /\ request = NoRequest
    /\ discovered = NotCalled
    /\ displayed = NotCalled
    /\ results = NotCalled
    /\ pc = "analyzed"

\* the state after process_reviews and analyze ran, with a client that
\* answers with one of the replies of the parser specification
InitParse ==
    /\ text = <<>>
    /\ nltk = "basic"
    /\ textblob = "available"
    /\ config = SummaryConfig
    /\ batch = SummaryBatch(4)
    /\ once = NotCalled
    /\ twice = NotCalled
    /\ cleaned = NotCalled
    /\ extracted = NotCalled
    /\ processed_data = Called(process_reviews(batch, ProcessingConfig, nltk, textblob))
    /\ analysis \in {Called(o) : o \in {x \in SummaryAnalyses(processed_data.value) :
                                           /\ ~x.raised
                                           /\ x.value.clusters.cluster_labels
                                              = [i \in 1..4 |-> i % 2]}}
    /\ reanalysis = NotCalled
    /\ recommendations = NotCalled
    /\ request = NoRequest
    /\ discovered = NotCalled
    /\ displayed = NotCalled
    /\ results = NotCalled
    /\ pc = "analyzed"
    /\ llm \in {{Responds(r)} : r \in Replies}

(***************************************************************************)
(* Actions: one per call of the public interface.                          *)
(***************************************************************************)
environment == <<text, nltk, textblob, llm, config, batch>>

\* the state of the callers of the discoverer, of the whole analysis and of
\* the display
application == <<request, discovered, displayed, results>>

\* once = clean_text(text)
CleanText ==
    /\ ~once.called
    /\ once' = Called(clean_text(text))
    /\ UNCHANGED <<environment, application, twice, cleaned, extracted, processed_data, analysis,
                   reanalysis, recommendations, pc>>

\* twice = clean_text(once)
CleanTextAgain ==
    /\ once.called /\ ~twice.called
    /\ twice' = Called(clean_text(once.value))
    /\ UNCHANGED <<environment, application, once, cleaned, extracted, processed_data, analysis,
                   reanalysis, recommendations, pc>>

\* DataProcessor(config).clean_reviews(batch)
CleanReviews ==
    /\ pc = "idle"
    /\ cleaned' = Called(clean_reviews(batch, ProcessingConfig))
    /\ pc' = "cleaned"
    /\ UNCHANGED <<environment, application, once, twice, extracted, processed_data, analysis,
                   reanalysis, recommendations>>

\* DataProcessor(config).extract_features(batch)
ExtractFeatures ==
    /\ pc = "idle"
    /\ extracted' = Called(extract_features(batch, ProcessingConfig, nltk, textblob))
    /\ pc' = "extracted"
    /\ UNCHANGED <<environment, application, once, twice, cleaned, processed_data, analysis,
                   reanalysis, recommendations>>

\* DataProcessor(config).process_reviews(batch)
ProcessReviews ==
    /\ pc = "idle"
    /\ processed_data' =
          Called(process_reviews(batch, ProcessingConfig, nltk, textblob))
    /\ pc' = "processed"
    /\ UNCHANGED <<environment, application, once, twice, cleaned, extracted, analysis,
                   reanalysis, recommendations>>

\* ClusterAnalyzer(config).analyze(processed_data)
Analyze ==
    /\ pc = "processed"
    /\ \E outcome \in analyze(processed_data.value, ClusteringConfig) :
          analysis' = Called(outcome)
    /\ pc' = "analyzed"
    /\ UNCHANGED <<environment, application, once, twice, cleaned, extracted, processed_data,
                   reanalysis, recommendations>>

\* a second ClusterAnalyzer(config).analyze(processed_data) after a first
\* that returned: it builds a new KMeans with the seed of the first
AnalyzeAgain ==
    /\ pc = "analyzed"
    /\ ~analysis.value.raised
    /\ \E outcome \in reanalyze(processed_data.value, ClusteringConfig,
                                [texts          |-> processed_data.value.structured_data.texts,
                                 features       |-> analysis.value.value.features,
                                 matrix         |-> analysis.value.value.features.matrix,
                                 n_clusters     |-> Get(analysis.value.value.clustering_config,
                                                        "n_clusters", DefaultNClusters),
                                 cluster_labels |-> analysis.value.value.clusters.cluster_labels]) :
          reanalysis' = Called(outcome)
    /\ pc' = "reanalyzed"
    /\ UNCHANGED <<environment, application, once, twice, cleaned, extracted, processed_data,
                   analysis, recommendations>>

\* LLMAnalyzer(config).generate_recommendations(processed_data, clusters, category)
\* on the result of a successful analyze
GenerateRecommendations ==
    /\ pc = "analyzed"
    /\ ~analysis.value.raised
    /\ \E behaviour \in llm :
          recommendations' = Called(generate_recommendations(
                                 processed_data.value, analysis.value.value,
                                 Category, behaviour,
                                 LlmConfig))
    /\ pc' = "generated"
    /\ UNCHANGED <<environment, application, once, twice, cleaned, extracted, processed_data,
                   analysis, reanalysis>>

\* GooglePlayDiscoverer(config).discover_apps(category, limit)
DiscoverApps ==
    /\ request.category # ""
    /\ LET call == discover_apps(request.category, request.limit, request.store, config)
       IN  /\ discovered' = Called(call.outcome)
           /\ config' = call.config
    /\ UNCHANGED <<text, nltk, textblob, llm, batch, request, displayed, results,
                   once, twice, cleaned, extracted, processed_data, analysis,
                   reanalysis, recommendations, pc>>

\* main of the dashboard after run_analysis stored its results:
\* display_cluster_details(results['clusters'], results['reviews']), where
\* results['reviews'] is all_reviews
DisplayClusterDetails ==
    /\ pc = "generated"
    /\ ~recommendations.value.raised
    /\ displayed' = Called(display_cluster_details(analysis.value.value, batch))
    /\ pc' = "displayed"
    /\ UNCHANGED <<environment, request, discovered, results, once, twice, cleaned,
                   extracted, processed_data, analysis, reanalysis, recommendations>>

\* analyze_category, step 1: discover the apps of the platform when it is
\* enabled
DiscoverStage ==
    /\ pc = "idle"
    /\ "scraper" \in DOMAIN request
    /\ IF config.app_stores.google_play.enabled
       THEN LET call == discover_apps(request.category, request.limit,
                                      request.store, config)
            IN  /\ discovered' = Called(call.outcome)
                /\ config' = call.config
       ELSE UNCHANGED <<discovered, config>>
    /\ pc' = "discovered"
    /\ UNCHANGED <<text, nltk, textblob, llm, batch, request, displayed, results,
                   once, twice, cleaned, extracted, processed_data, analysis,
                   reanalysis, recommendations>>

\* analyze_category, step 2: collect the reviews of the discovered apps
CollectStage ==
    /\ pc = "discovered"
    /\ batch' = collect_reviews(IF discovered.called THEN discovered.value.value ELSE <<>>,
                                request.scraper)
    /\ pc' = "collected"
    /\ UNCHANGED <<text, nltk, textblob, llm, config, application, once, twice,
                   cleaned, extracted, processed_data, analysis, reanalysis,
                   recommendations>>

\* analyze_category, step 3: process_reviews(all_reviews); an error ends the
\* call
NormalizeStage ==
    /\ pc = "collected"
    /\ LET outcome == ProcessReviewsOutcome(batch, ProcessingConfig, nltk, textblob)
       IN  IF outcome.raised
           THEN /\ results' = Called(outcome)
                /\ pc' = "raised"
                /\ UNCHANGED processed_data
           ELSE /\ processed_data' = Called(outcome.value)
                /\ pc' = "normalized"
                /\ UNCHANGED results
    /\ UNCHANGED <<environment, request, discovered, displayed, once, twice, cleaned,
                   extracted, analysis, reanalysis, recommendations>>

\* analyze_category, step 4: analyze(processed_data); an error ends the call
ClusterStage ==
    /\ pc = "normalized"
    /\ \E outcome \in analyze(processed_data.value, ClusteringConfig) :
          /\ analysis' = Called(outcome)
          /\ IF outcome.raised
             THEN /\ results' = Called(Raise(outcome.error.type, outcome.error.message))
                  /\ pc' = "raised"
             ELSE /\ pc' = "clustered"
                  /\ UNCHANGED results
    /\ UNCHANGED <<environment, request, discovered, displayed, once, twice, cleaned,
                   extracted, processed_data, reanalysis, recommendations>>

\* analyze_category, step 5 and the return: generate_recommendations, then
\* the metadata
GenerateStage ==
    /\ pc = "clustered"
    /\ \E behaviour \in llm :
          LET generated == generate_recommendations(processed_data.value,
                                                    analysis.value.value,
                                                    request.category, behaviour, LlmConfig)
              outcome   == category_results(
                               request.category,
                               IF discovered.called THEN discovered.value.value ELSE <<>>,
                               batch, processed_data.value, analysis.value.value,
                               generated)
          IN  /\ recommendations' = Called(generated)
              /\ results' = Called(outcome)
              /\ pc' = IF outcome.raised THEN "raised" ELSE "returned"
    /\ UNCHANGED <<environment, request, discovered, displayed, once, twice, cleaned,
                   extracted, processed_data, analysis, reanalysis>>

Next ==
    \/ CleanReviews
    \/ ExtractFeatures
    \/ ProcessReviews
    \/ Analyze
    \/ AnalyzeAgain
    \/ GenerateRecommendations

Spec == Init /\ [][Next]_vars

NextText == CleanText \/ CleanTextAgain

SpecText == InitText /\ [][NextText]_vars

NextClean == CleanReviews \/ ExtractFeatures \/ ProcessReviews

SpecClean == InitClean /\ [][NextClean]_vars

NextKw == ProcessReviews \/ ExtractFeatures

SpecKw == InitKw /\ [][NextKw]_vars

NextFeatures == ExtractFeatures \/ ProcessReviews

SpecFeatures == InitFeatures /\ [][NextFeatures]_vars

NextTable == ProcessReviews \/ Analyze

SpecTable == InitTable /\ [][NextTable]_vars

NextSummary == GenerateRecommendations

SpecSummary == InitSummary /\ [][NextSummary]_vars

NextParse == GenerateRecommendations

NextDefaults == ProcessReviews \/ Analyze \/ GenerateRecommendations

SpecDefaults == InitDefaults /\ [][NextDefaults]_vars

NextDiscover == DiscoverApps

SpecDiscover == InitDiscover /\ [][NextDiscover]_vars

NextFrame == DiscoverApps \/ ProcessReviews \/ Analyze

SpecFrame == InitFrame /\ [][NextFrame]_vars

NextDisplay ==
    ProcessReviews \/ Analyze \/ GenerateRecommendations \/ DisplayClusterDetails

SpecDisplay == InitDisplay /\ [][NextDisplay]_vars

NextCategory ==
    DiscoverStage \/ CollectStage \/ NormalizeStage \/ ClusterStage \/ GenerateStage

SpecCategory == InitCategory /\ [][NextCategory]_vars

NextClient == GenerateRecommendations

SpecClient == InitClient /\ [][NextClient]_vars

SpecParse == InitParse /\ [][NextParse]_vars

(***************************************************************************)
(* Vocabulary of the properties.                                           *)
(***************************************************************************)
\* the values the calls read from the configuration
MinLength == Get(ProcessingConfig, "min_review_length", DefaultMinReviewLength)

MaxLength == Get(ProcessingConfig, "max_review_length", DefaultMaxReviewLength)

MinWordCount == Get(ProcessingConfig, "min_word_count", DefaultMinWordCount)

ConfiguredK == Get(ClusteringConfig, "n_clusters", DefaultNClusters)

\* review i of the batch is a dict whose 'text' is a str
HasRawText(i) ==
    IsDict(batch[i]) /\ "text" \in DOMAIN batch[i] /\ IsStr(batch[i].text)

\* the 'text' field of review i as received
RawText(i) == batch[i].text.s

\* review i of the batch is a dict with an 'id'
HasId(i) == IsDict(batch[i]) /\ "id" \in DOMAIN batch[i]

\* the ids of the reviews of a list (of its elements that are dicts with an id)
IdsOf(reviews) ==
    {reviews[j].id : j \in {m \in 1..Len(reviews) :
                               IsDict(reviews[m]) /\ "id" \in DOMAIN reviews[m]}}

\* a is b with some elements left out
RECURSIVE IsSubseq(_, _)
IsSubseq(a, b) ==
    IF a = <<>> THEN TRUE
    ELSE IF b = <<>> THEN FALSE
    ELSE IF Head(a) = Head(b) THEN IsSubseq(Tail(a), Tail(b))
    ELSE IsSubseq(a, Tail(b))

\* the analysis ended and returned a clustering result
Clustered == analysis.called /\ ~analysis.value.raised

\* the analysis ended with an error
AnalysisFailed == analysis.called /\ analysis.value.raised

\* the list of clusters of a returned result, and its label vector
ClusterList == analysis.value.value.clusters.clusters

LabelVector == analysis.value.value.clusters.cluster_labels

\* the rows handed to the clustering: one per processed review
RowCount == Len(processed_data.value.reviews)

\* the member indices of cluster j as a set
MemberSet(j) == {ClusterList[j].indices[m] : m \in 1..Len(ClusterList[j].indices)}

(***************************************************************************)
(* C1                                                                      *)
(***************************************************************************)
\* C1: after a successful clustering the 'indices' lists of the clusters
\* partition the row indices 0..n-1: their union is the whole range, no
\* index is in two clusters and none is listed twice.
C1_PartitionInvariant ==
    Clustered =>
        /\ UNION {MemberSet(j) : j \in 1..Len(ClusterList)} = 0..(RowCount - 1)
        /\ \A j1, j2 \in 1..Len(ClusterList) :
              j1 # j2 => MemberSet(j1) \cap MemberSet(j2) = {}
        /\ \A j \in 1..Len(ClusterList) :
              Cardinality(MemberSet(j)) = Len(ClusterList[j].indices)

\* a clustering of three rows into two non-empty clusters
C1_Witness ==
    Clustered /\ RowCount = 3 /\ Len(ClusterList) = 2

(***************************************************************************)
(* C2                                                                      *)
(***************************************************************************)
\* C2 as stated: a review whose 'text' as received is shorter than
\* min_review_length or longer than max_review_length is absent from the
\* output of clean_reviews.
C2_RawLengthFilter ==
    cleaned.called =>
        \A i \in 1..Len(batch) :
            (/\ HasRawText(i) /\ HasId(i)
             /\ (Len(RawText(i)) < MinLength \/ Len(RawText(i)) > MaxLength))
            => batch[i].id \notin IdsOf(cleaned.value)

\* C2 amended: a review whose 'text', with its leading and trailing
\* whitespace removed, is shorter than min_review_length or longer than
\* max_review_length is absent from the output of clean_reviews.
C2_TrimmedLengthFilter ==
    cleaned.called =>
        \A i \in 1..Len(batch) :
            (/\ HasRawText(i) /\ HasId(i)
             /\ (\/ Len(Strip(RawText(i))) < MinLength
                 \/ Len(Strip(RawText(i))) > MaxLength))
            => batch[i].id \notin IdsOf(cleaned.value)

\* clean_reviews has run on a review whose trimmed text is too long although
\* the text would pass the other filters
C2_Witness ==
    /\ cleaned.called
    /\ Len(batch) = 1 /\ HasRawText(1)
    /\ Len(Strip(RawText(1))) > MaxLength
    /\ Len(Split(clean_text(Strip(RawText(1))))) >= MinWordCount
    /\ Len(clean_text(Strip(RawText(1)))) >= MinLength

(***************************************************************************)
(* C3                                                                      *)
(***************************************************************************)
\* C3: every review clean_reviews emits has a cleaned text of at least
\* min_review_length characters and at least min_word_count words, its
\* text_length and word_count are the length and the word count of that
\* text, and a review whose cleaned text misses a minimum is not emitted.
C3_CleanedMinimums ==
    cleaned.called =>
        /\ \A j \in 1..Len(cleaned.value) :
              LET r == cleaned.value[j]
              IN  /\ IsStr(r.text)
                  /\ Len(r.text.s) >= MinLength
                  /\ Len(Split(r.text.s)) >= MinWordCount
                  /\ r.text_length = Len(r.text.s)
                  /\ r.word_count = Len(Split(r.text.s))
        /\ \A i \in 1..Len(batch) :
              (/\ HasRawText(i) /\ HasId(i)
               /\ (\/ Len(clean_text(Strip(RawText(i)))) < MinLength
                   \/ Len(Split(clean_text(Strip(RawText(i))))) < MinWordCount))
              => batch[i].id \notin IdsOf(cleaned.value)

\* clean_reviews has emitted a review whose cleaning removed characters
C3_Witness ==
    /\ cleaned.called
    /\ Len(cleaned.value) = 1 /\ HasRawText(1)
    /\ cleaned.value[1].text_length < Len(Strip(RawText(1)))
    /\ MinWordCount > 0
    /\ MinLength > 0

(***************************************************************************)
(* C4                                                                      *)
(***************************************************************************)
\* C4: clean_text is idempotent: cleaning a cleaned text returns it unchanged.
C4_CleanTextIdempotent ==
    twice.called => twice.value = once.value

\* clean_text has run twice on a text from which it removed a URL and other
\* characters and of which it kept some
C4_Witness ==
    /\ twice.called
    /\ once.value # <<>>
    /\ RemoveUrls(ToLower(text)) # ToLower(text)
    /\ Len(once.value) < Len(RemoveUrls(ToLower(text)))

(***************************************************************************)
(* C5                                                                      *)
(***************************************************************************)
\* the tokens extract_keywords draws the keywords of a cleaned text from:
\* its words, lemmatized when the full strategy runs
KeywordSource(t) == IF nltk = "full" THEN MapLemmatize(Split(t)) ELSE Split(t)

\* C5: every review process_reviews returns carries at most 10 keywords,
\* and they are tokens of its text in the order of the text, under the full
\* and under the basic strategy.
C5_KeywordBound ==
    processed_data.called =>
        \A j \in 1..Len(processed_data.value.reviews) :
            LET r == processed_data.value.reviews[j]
            IN  /\ "keywords" \in DOMAIN r
                /\ Len(r.keywords) <= 10
                /\ IsSubseq(r.keywords, KeywordSource(r.text.s))

\* process_reviews has returned a review of eleven long words with ten
\* keywords, the first two of them different
C5_Witness ==
    /\ processed_data.called
    /\ Len(processed_data.value.reviews) = 1
    /\ Len(SelectSeq(Split(processed_data.value.reviews[1].text.s), IsLongWord)) > 10
    /\ Len(processed_data.value.reviews[1].keywords) = 10
    /\ processed_data.value.reviews[1].keywords[1]
          # processed_data.value.reviews[1].keywords[2]

(***************************************************************************)
(* C6                                                                      *)
(***************************************************************************)
\* the filters of clean_reviews, stated on review i of the batch
PassesFilters(i) ==
    LET trimmed == Strip(RawText(i))
    IN  /\ Len(trimmed) >= MinLength
        /\ Len(trimmed) <= MaxLength
        /\ Len(Split(clean_text(trimmed))) >= MinWordCount
        /\ Len(clean_text(trimmed)) >= MinLength

\* the reviews of the batch whose cleaning raises: no dict, or a 'text' that
\* is present and no str
Malformed(i) ==
    \/ ~IsDict(batch[i])
    \/ ("text" \in DOMAIN batch[i] /\ ~IsStr(batch[i].text))

\* C6: clean_reviews returns a list for every batch (the call has ended in
\* every state that follows it); a review whose cleaning raises is skipped,
\* and the other reviews that pass the filters are in the output, cleaned, in
\* their original relative order.
C6_BatchSurvivesMalformed ==
    /\ pc = "cleaned" => cleaned.called
    /\ cleaned.called =>
          /\ \A i \in 1..Len(batch) :
                (Malformed(i) /\ HasId(i)) => batch[i].id \notin IdsOf(cleaned.value)
          /\ \A i \in 1..Len(batch) :
                (HasRawText(i) /\ PassesFilters(i)) =>
                    \E j \in 1..Len(cleaned.value) :
                        /\ cleaned.value[j].id = batch[i].id
                        /\ cleaned.value[j].text = Str(clean_text(Strip(RawText(i))))
          /\ \A j1, j2 \in 1..Len(cleaned.value) :
                j1 < j2 => cleaned.value[j1].id < cleaned.value[j2].id

\* clean_reviews has skipped a malformed review between two reviews it emitted
C6_Witness ==
    /\ cleaned.called
    /\ Len(batch) = 3 /\ Malformed(2)
    /\ Len(cleaned.value) = 2
    /\ cleaned.value[1].id = 0 /\ cleaned.value[2].id = 2

(***************************************************************************)
(* C7                                                                      *)
(***************************************************************************)
\* C7 as stated: a review for which extract_features raises is dropped from
\* its output, and the other reviews of the batch are in the output with
\* their features.
C7_FailedReviewDropped ==
    extracted.called =>
        /\ \A i \in 1..Len(batch) :
              (FeaturesRaise(batch[i]) /\ HasId(i))
              => batch[i].id \notin IdsOf(extracted.value)
        /\ \A i \in 1..Len(batch) :
              ~FeaturesRaise(batch[i]) =>
                  \E j \in 1..Len(extracted.value) :
                      /\ extracted.value[j].id = batch[i].id
                      /\ "keywords" \in DOMAIN extracted.value[j]

(***************************************************************************)
(* C8                                                                      *)
(***************************************************************************)
\* C8 as stated: analyze called with zero reviews fails with an
\* EmptyInputError raised before any vectorization or clustering step, and
\* returns no clustering result.
C8_EmptyInputError ==
    (analysis.called /\ RowCount = 0) =>
        /\ analysis.value.raised
        /\ analysis.value.error.type = "EmptyInputError"
        /\ analysis.value.ran = <<>>

\* C8 amended: analyze called with zero reviews fails with a ValueError
\* ("No text data available for clustering") raised before any vectorization
\* or clustering step, and returns no clustering result.
C8_EmptyInputValueError ==
    (analysis.called /\ RowCount = 0) =>
        /\ analysis.value.raised
        /\ analysis.value.error.type = "ValueError"
        /\ analysis.value.error.message = "No text data available for clustering"
        /\ analysis.value.ran = <<>>

\* analyze has run on the empty review list that process_reviews made of a
\* batch of two reviews
C8_Witness ==
    analysis.called /\ RowCount = 0 /\ Len(batch) = 2

(***************************************************************************)
(* C9                                                                      *)
(***************************************************************************)
\* the clustering step ran: the vectorizer returned a feature matrix
ClusteringRan == analysis.called /\ analysis.value.ran = <<"vectorize", "kmeans">>

\* C9 as stated: when n_clusters exceeds the number of feature rows the
\* clustering fails with an InvalidClusterCountError and yields no cluster
\* assignment.
C9_InvalidClusterCountError ==
    (ClusteringRan /\ ConfiguredK > RowCount) =>
        /\ analysis.value.raised
        /\ analysis.value.error.type = "InvalidClusterCountError"

\* C9 amended: when n_clusters exceeds the number of feature rows the
\* clustering fails with the ValueError that KMeans.fit_predict raises and
\* yields no cluster assignment.
C9_ClusterCountValueError ==
    /\ (ClusteringRan /\ ConfiguredK > RowCount) =>
          /\ analysis.value.raised
          /\ analysis.value.error.type = "ValueError"
          /\ analysis.value.error.message = "n_samples should be >= n_clusters"
    /\ (analysis.called /\ ConfiguredK > RowCount) => analysis.value.raised

\* the clustering step has run on three rows with the default of 8 clusters
C9_Witness ==
    ClusteringRan /\ RowCount = 3 /\ ConfiguredK = 8

(***************************************************************************)
(* C10                                                                     *)
(***************************************************************************)
\* the ids of the clusters of a returned result
IdsInUse == {ClusterList[j].id : j \in 1..Len(ClusterList)}

\* k': the number of distinct labels fit_predict gave the rows
NonEmptyCount == Cardinality({LabelVector[i] : i \in 1..Len(LabelVector)})

\* C10 as stated: after a successful clustering the cluster ids in use are
\* exactly 0..k'-1, where k' <= k is the number of non-empty clusters, and
\* n_clusters is k'.
C10_ContiguousIds ==
    Clustered =>
        /\ IdsInUse = 0..(NonEmptyCount - 1)
        /\ NonEmptyCount <= ConfiguredK
        /\ analysis.value.value.clusters.n_clusters = NonEmptyCount

\* C10 amended: after a successful clustering the cluster ids in use are k'
\* distinct ids of 0..k-1, not necessarily the first k' of them, where
\* k' <= k is the number of non-empty clusters; every cluster listed is
\* non-empty and n_clusters is k'.
C10_IdsWithinRange ==
    Clustered =>
        /\ IdsInUse \subseteq 0..(ConfiguredK - 1)
        /\ Cardinality(IdsInUse) = NonEmptyCount
        /\ Len(ClusterList) = NonEmptyCount
        /\ \A j \in 1..Len(ClusterList) : ClusterList[j].size > 0
        /\ NonEmptyCount <= ConfiguredK
        /\ analysis.value.value.clusters.n_clusters = NonEmptyCount

\* a clustering that populated fewer clusters than configured and left a
\* lower id unused
C10_Witness ==
    /\ Clustered
    /\ NonEmptyCount < ConfiguredK
    /\ 0 \notin IdsInUse

(***************************************************************************)
(* Vocabulary of the properties of the LLMAnalyzer.                        *)
(***************************************************************************)
\* the second analysis ended and returned a clustering result
Reclustered == reanalysis.called /\ ~reanalysis.value.raised

\* generate_recommendations returned
Generated == recommendations.called /\ ~recommendations.value.raised

\* the cluster summaries of the returned analysis_data
Summaries == recommendations.value.value.analysis_data.clusters

\* the sections of the returned result
Sections == recommendations.value.value

SectionNames == {"insights", "recommendations", "summary"}

\* the prompt the client was invoked with
Prompt == recommendations.value.requests[1]

\* the positions of the normalized review sequence the clustering put into
\* cluster j, in ascending order
Members(j) == Ascending({i \in 1..RowCount : LabelVector[i] = ClusterList[j].id})

\* the summaries made of cluster j
SummariesFor(j) ==
    {s \in 1..Len(Summaries) : Summaries[s].id = <<"cluster", ClusterList[j].id>>}

\* the reply of a client that always answers the same
Reply == (CHOOSE behaviour \in llm : TRUE).content

OneReply == Cardinality(llm) = 1 /\ \A behaviour \in llm : behaviour.kind = "responds"

\* the lines of the reply, each stripped
StrippedReply ==
    LET split == SplitLines(Reply)
    IN  [k \in 1..Len(split) |-> StripLine(split[k])]

\* line k of the stripped lines is a header line
IsHeader(lines, k) == SectionOf(lines[k]) # ""

HasHeader(lines) == \E k \in 1..Len(lines) : IsHeader(lines, k)

\* the section line k belongs to: the one of the last header before it
Governing(lines, k) ==
    LET heads == {h \in 1..(k - 1) : IsHeader(lines, h)}
    IN  IF heads = {} THEN ""
        ELSE SectionOf(lines[CHOOSE h \in heads : \A g \in heads : g <= h])

\* the lines that follow a header of the section up to the next header or
\* the end of the reply, without the blank ones, each closed by a newline
Following(lines, name) ==
    LET at == Ascending({k \in 1..Len(lines) :
                            /\ ~IsHeader(lines, k)
                            /\ lines[k] # <<>>
                            /\ Governing(lines, k) = name})
    IN  Concat([m \in 1..Len(at) |-> lines[at[m]] \o <<"\n">>])

\* the lines from the second on, without the blank ones, each closed by a
\* newline
AfterFirstLine(lines) ==
    LET at == Ascending({k \in 2..Len(lines) : lines[k] # <<>>})
    IN  Concat([m \in 1..Len(at) |-> lines[at[m]] \o <<"\n">>])

\* no line from the second on starts a header of any kind
NoHeaderAfterFirstLine(lines) ==
    \A k \in 2..Len(lines) : lines[k] = <<>> \/ lines[k][1] # "#"

\* the header "## RECOMMENDATIONS"
PlainRecommendationsHeader ==
    <<"#", "#", " ", "R", "E", "C", "O", "M", "M", "E", "N", "D", "A", "T", "I", "O", "N", "S">>

\* no line starts with one of the three headers of the parser
NoRecognizedHeader(lines) ==
    \A k \in 1..Len(lines) :
        /\ ~StartsWith(lines[k], InsightsMarker)
        /\ ~StartsWith(lines[k], RecommendationsMarker)
        /\ ~StartsWith(lines[k], SummaryMarker)

C12_RepresentativesAreFirstMembers ==
    Generated =>
        \A j \in 1..Len(ClusterList) :
            Members(j) # <<>> =>
                /\ Cardinality(SummariesFor(j)) = 1
                /\ \A s \in SummariesFor(j) :
                      LET reps == Summaries[s].representative_reviews
                      IN  /\ Summaries[s].size = Len(Members(j))
                          /\ Len(reps) = IF Len(Members(j)) < 10 THEN Len(Members(j)) ELSE 10
                          /\ \A m \in 1..Len(reps) :
                                reps[m].text = processed_data.value.reviews[Members(j)[m]].text

\* a cluster of more than ten members has been summarized
C12_Witness ==
    /\ Generated
    /\ \E j \in 1..Len(ClusterList) :
          /\ Len(Members(j)) > 10
          /\ \E s \in SummariesFor(j) : Len(Summaries[s].representative_reviews) = 10

(***************************************************************************)
(* C13                                                                     *)
(***************************************************************************)
\* C13: a representative record of a cluster summary has the key 'text' and
\* no other key.
C13_RepresentativeTextOnly ==
    Generated =>
        \A s \in 1..Len(Summaries) :
            \A m \in 1..Len(Summaries[s].representative_reviews) :
                DOMAIN Summaries[s].representative_reviews[m] = {"text"}

\* reviews that carry an id, a rating and an author have been summarized
C13_Witness ==
    /\ Generated
    /\ \E s \in 1..Len(Summaries) : Summaries[s].representative_reviews # <<>>
    /\ \A i \in 1..RowCount :
          {"id", "rating", "author"} \subseteq DOMAIN processed_data.value.reviews[i]

(***************************************************************************)
(* C14                                                                     *)
(***************************************************************************)
\* C14: no cluster summary has size 0, and a cluster without reviews has
\* no summary.
C14_NoEmptySummary ==
    Generated =>
        /\ \A s \in 1..Len(Summaries) : Summaries[s].size > 0
        /\ \A j \in 1..Len(ClusterList) :
              ClusterList[j].reviews = <<>> => SummariesFor(j) = {}

\* clusters of which one has no reviews have been summarized
C14_Witness ==
    /\ Generated
    /\ \E j \in 1..Len(ClusterList) : ClusterList[j].reviews = <<>>
    /\ Summaries # <<>>

(***************************************************************************)
(* C15                                                                     *)
(***************************************************************************)
\* C15: the feedback block of the prompt has one line per representative
\* review; line i is  Review i: "<text>"  for the i-th representative in
\* summary order, i counting on from 1 over all summaries, and the block
\* holds nothing else.
C15_FeedbackLinesNumberedThrough ==
    Generated =>
        LET reps  == AllRepresentatives(Summaries)
            lines == SplitLines(Prompt.user_feedback)
        IN  /\ Len(lines) = Len(reps) + 1
            /\ lines[Len(lines)] = <<>>
            /\ \A i \in 1..Len(reps) :
                  lines[i] = <<"R", "e", "v", "i", "e", "w", " ">> \o Decimal(i)
                             \o <<":", " ", "\"">> \o reps[i].text.s \o <<"\"">>

\* a prompt of ten or more lines over two summaries has been rendered
C15_Witness ==
    /\ Generated
    /\ Len(Summaries) = 2
    /\ Summaries[1].representative_reviews # <<>>
    /\ Summaries[2].representative_reviews # <<>>
    /\ Len(AllRepresentatives(Summaries)) >= 10

(***************************************************************************)
(* C16                                                                     *)
(***************************************************************************)
\* C16 as stated: for a reply with section headers, each section holds the
\* lines that follow its headers up to the next header or the end, and
\* nothing else.
C16_SectionsHoldFollowingLines ==
    (Generated /\ OneReply) =>
        LET lines == StrippedReply
        IN  HasHeader(lines) =>
                \A name \in SectionNames : Sections[name] = Following(lines, name)

\* C16: for a reply with section headers after which some non-blank line
\* follows, each section holds the non-blank lines that follow its headers
\* up to the next header or the end, stripped and closed by a newline, and
\* nothing else; for a reply with section headers after which no non-blank
\* line follows, insights is the whole reply and the other sections are empty.
C16_SectionsOrWholeReply ==
    (Generated /\ OneReply) =>
        LET lines == StrippedReply
            found == [name \in SectionNames |-> Following(lines, name)]
        IN  HasHeader(lines) =>
                IF \E name \in SectionNames : found[name] # <<>>
                THEN \A name \in SectionNames : Sections[name] = found[name]
                ELSE /\ Sections.insights = Reply
                     /\ Sections.recommendations = <<>>
                     /\ Sections.summary = <<>>

\* a reply whose first header is the summary header and whose three
\* sections all hold lines has been parsed
C16_Witness ==
    /\ Generated
    /\ OneReply
    /\ \A name \in SectionNames : Sections[name] # <<>>
    /\ LET lines == StrippedReply
       IN  \E k \in 1..Len(lines) :
              /\ SectionOf(lines[k]) = "summary"
              /\ \A h \in 1..(k - 1) : ~IsHeader(lines, h)

(***************************************************************************)
(* C17                                                                     *)
(***************************************************************************)
\* C17 as stated: for a reply that is the header "## RECOMMENDATIONS"
\* followed by lines, insights is empty, recommendations holds those lines
\* and summary is empty.
C17_PlainHeaderFillsRecommendations ==
    (Generated /\ OneReply) =>
        LET lines == StrippedReply
        IN  (/\ lines[1] = PlainRecommendationsHeader
             /\ NoHeaderAfterFirstLine(lines)
             /\ AfterFirstLine(lines) # <<>>) =>
                /\ Sections.insights = <<>>
                /\ Sections.recommendations = AfterFirstLine(lines)
                /\ Sections.summary = <<>>

\* C17: for a reply that is the recommendations header of the prompt
\* followed by lines of which one is not blank, insights is empty,
\* recommendations holds the non-blank lines and summary is empty.
C17_OnlyRecommendations ==
    (Generated /\ OneReply) =>
        LET lines == StrippedReply
        IN  (/\ lines[1] = <<"#", "#", " ", "U+1F3AF", " ", "U", "X", " ">>
                           \o <<"R", "E", "C", "O", "M", "M", "E", "N", "D",
                                "A", "T", "I", "O", "N", "S">>
             /\ NoHeaderAfterFirstLine(lines)
             /\ AfterFirstLine(lines) # <<>>) =>
                /\ Sections.insights = <<>>
                /\ Sections.recommendations = AfterFirstLine(lines)
                /\ Sections.summary = <<>>

\* a reply of the recommendations header and lines has been parsed
C17_Witness ==
    /\ Generated
    /\ OneReply
    /\ SectionOf(StrippedReply[1]) = "recommendations"
    /\ NoHeaderAfterFirstLine(StrippedReply)
    /\ Sections.insights = <<>>
    /\ Sections.recommendations # <<>>

(***************************************************************************)
(* C18                                                                     *)
(***************************************************************************)
\* C18: for a reply without any of the three headers, insights is the whole
\* reply and recommendations and summary are empty.
C18_WholeReplyUnderInsights ==
    (Generated /\ OneReply /\ NoRecognizedHeader(StrippedReply)) =>
        /\ Sections.insights = Reply
        /\ Sections.recommendations = <<>>
        /\ Sections.summary = <<>>

\* a reply of several lines and no recognized header has been parsed
C18_Witness ==
    /\ Generated
    /\ OneReply
    /\ NoRecognizedHeader(StrippedReply)
    /\ Len(StrippedReply) > 2
    /\ Sections.insights # <<>>

(***************************************************************************)
(* C19                                                                     *)
(***************************************************************************)
\* the keywords of the basic strategy: the first ten whitespace tokens of
\* more than three characters
BasicKeywords(t) ==
    LET long == SelectSeq(Split(t), LAMBDA w : Len(w) > 3)
    IN  IF Len(long) <= 10 THEN long ELSE SubSeq(long, 1, 10)

\* C19 as stated: whenever the toolkit was not importable or failed to
\* initialize, the keywords of a processed review are the first 10
\* whitespace tokens of length above 3 of its cleaned text.
C19_FallbackKeywords ==
    (processed_data.called /\ nltk \in {"basic", "broken"}) =>
        \A i \in 1..Len(processed_data.value.reviews) :
            processed_data.value.reviews[i].keywords
                = BasicKeywords(processed_data.value.reviews[i].text.s)

(***************************************************************************)
(* C20                                                                     *)
(***************************************************************************)
\* the neutral sentiment
Neutral == [polarity |-> 0, subjectivity |-> 0]

\* C20 as stated: every review extract_features returns carries a
\* sentiment, which is neutral when the library is unavailable or fails.
C20_SentimentAlways ==
    extracted.called =>
        \A i \in 1..Len(extracted.value) :
            /\ IsDict(extracted.value[i])
            /\ "sentiment" \in DOMAIN extracted.value[i]
            /\ textblob \in {"unavailable", "failing"}
                  => extracted.value[i].sentiment = Neutral

\* C20: extract_features returns one review per review it was given; the
\* review carries a sentiment exactly when its text is a str, the library
\* was imported and sentiment_analysis is not switched off; that sentiment
\* is neutral when the library fails on the text.
C20_SentimentWhenAvailable ==
    extracted.called =>
        /\ Len(extracted.value) = Len(batch)
        /\ \A i \in 1..Len(batch) :
              IF HasRawText(i)
              THEN /\ "sentiment" \in DOMAIN extracted.value[i]
                      <=> (/\ textblob # "unavailable"
                           /\ Get(ProcessingConfig, "sentiment_analysis", TRUE))
                   /\ ("sentiment" \in DOMAIN extracted.value[i] /\ textblob = "failing")
                         => extracted.value[i].sentiment = Neutral
              ELSE extracted.value[i] = batch[i]

\* extract_features has returned a review of a text without a sentiment
\* because the library is unavailable
C20_Witness ==
    /\ extracted.called
    /\ textblob = "unavailable"
    /\ Len(batch) = 1
    /\ HasRawText(1)
    /\ "keywords" \in DOMAIN extracted.value[1]
    /\ "sentiment" \notin DOMAIN extracted.value[1]

(***************************************************************************)
(* C21                                                                     *)
(***************************************************************************)
\* the distinct words of the text of review i, lower-cased
DistinctWords(i) ==
    LET split == Split(ToLower(RawText(i)))
    IN  {split[k] : k \in 1..Len(split)}

EnglishOverlap(i) == Cardinality(DistinctWords(i) \cap EnglishWords)

SpanishOverlap(i) == Cardinality(DistinctWords(i) \cap SpanishWords)

\* C21: the language of a review is "es" when the distinct words of its
\* text overlap the Spanish list strictly more than the English list, and
\* "en" otherwise (equal overlaps, both zero, or a larger English overlap).
C21_SpanishOnlyOnStrictMajority ==
    extracted.called =>
        \A i \in 1..Len(batch) :
            (HasRawText(i) /\ "language" \in DOMAIN extracted.value[i]) =>
                /\ extracted.value[i].language \in {"en", "es"}
                /\ extracted.value[i].language = "es"
                      <=> SpanishOverlap(i) > EnglishOverlap(i)

\* a text that repeats a Spanish word and holds one English word, so that
\* the overlaps tie at one, has been given the language "en"
C21_Witness ==
    /\ extracted.called
    /\ Len(batch) = 1
    /\ HasRawText(1)
    /\ SpanishOverlap(1) = 1
    /\ EnglishOverlap(1) = 1
    /\ Len(Split(RawText(1))) = 3
    /\ "language" \in DOMAIN extracted.value[1]
    /\ extracted.value[1].language = "en"

(***************************************************************************)
(* C22                                                                     *)
(***************************************************************************)
\* the cluster statistics of the returned analysis
Statistics == analysis.value.value.cluster_analysis

\* the extracted keywords of the members of cluster j, member after member
MemberKeywords(j) ==
    Concat([m \in 1..Len(Members(j)) |->
               processed_data.value.reviews[Members(j)[m]].keywords])

Occurrences(ks, k) == Cardinality({i \in 1..Len(ks) : ks[i] = k})

FirstOccurrence(ks, k) == Min({i \in 1..Len(ks) : ks[i] = k})

\* keyword a is listed before keyword b: it is more frequent, or as frequent
\* and seen first
ListedBefore(ks, a, b) ==
    \/ Occurrences(ks, a) > Occurrences(ks, b)
    \/ /\ Occurrences(ks, a) = Occurrences(ks, b)
       /\ FirstOccurrence(ks, a) < FirstOccurrence(ks, b)

\* C22: total_clusters is the number of clusters, cluster_sizes lists the
\* member count of each cluster, and the keyword table of each cluster holds
\* the min(10, distinct) most frequent keywords of its members' extracted
\* keywords with their counts, the more frequent first and equally frequent
\* ones in the order of their first occurrence.
C22_KeywordTable ==
    Clustered =>
        /\ Statistics.total_clusters = Len(ClusterList)
        /\ Len(Statistics.cluster_sizes) = Len(ClusterList)
        /\ Len(Statistics.cluster_keywords) = Len(ClusterList)
        /\ \A j \in 1..Len(ClusterList) :
              LET ks       == MemberKeywords(j)
                  distinct == {ks[i] : i \in 1..Len(ks)}
                  table    == Statistics.cluster_keywords[j]
                  listed   == {table[r].keyword : r \in 1..Len(table)}
              IN  /\ Statistics.cluster_sizes[j] = Len(Members(j))
                  /\ Len(table) = IF Cardinality(distinct) < 10
                                  THEN Cardinality(distinct) ELSE 10
                  /\ \A r \in 1..Len(table) :
                        /\ table[r].keyword \in distinct
                        /\ table[r].count = Occurrences(ks, table[r].keyword)
                  /\ \A r, q \in 1..Len(table) :
                        r < q => ListedBefore(ks, table[r].keyword, table[q].keyword)
                  /\ \A a \in listed : \A b \in distinct \ listed :
                        ListedBefore(ks, a, b)

\* a cluster whose members hold more than ten distinct keywords has a table
\* of ten keywords in which two neighbours are equally frequent
C22_Witness ==
    /\ Clustered
    /\ \E j \in 1..Len(ClusterList) :
          LET ks    == MemberKeywords(j)
              table == Statistics.cluster_keywords[j]
          IN  /\ Cardinality({ks[i] : i \in 1..Len(ks)}) > 10
              /\ Len(table) = 10
              /\ table[1].count > table[10].count
              /\ \E r \in 1..9 : table[r].count = table[r + 1].count

(***************************************************************************)
(* C23                                                                     *)
(***************************************************************************)
\* generate_recommendations called the client and the call failed
GenerationFailed ==
    /\ recommendations.called
    /\ recommendations.value.raised
    /\ recommendations.value.invocations > 0

\* the max_retries the client of this configuration is constructed with
RetriesRequested == ClientMaxRetries(LlmConfig)

\* C23 as stated: when the generation call fails, generate_recommendations
\* raises the client's error and returns no result, the client was called
\* once, at most one request was sent and no retry was requested.
C23_NoRetryRequested ==
    GenerationFailed =>
        /\ recommendations.value.error = ClientError
        /\ "value" \notin DOMAIN recommendations.value
        /\ recommendations.value.invocations = 1
        /\ Len(recommendations.value.requests) <= 1
        /\ RetriesRequested = 0

\* C23: when the generation call fails, generate_recommendations raises the
\* client's error and returns no result, and it called the client once; the
\* client sent the one prompt at least once and at most as often as the
\* max_retries it was constructed with (3 unless llm_analysis sets it).
C23_ErrorPropagatedOneInvoke ==
    GenerationFailed =>
        /\ recommendations.value.error = ClientError
        /\ "value" \notin DOMAIN recommendations.value
        /\ recommendations.value.invocations = 1
        /\ Len(recommendations.value.requests) >= 1
        /\ Len(recommendations.value.requests)
              <= (IF RetriesRequested > 1 THEN RetriesRequested ELSE 1)
        /\ \A i \in 1..Len(recommendations.value.requests) :
              recommendations.value.requests[i] = recommendations.value.requests[1]
        /\ "max_retries" \notin DOMAIN LlmConfig
              => RetriesRequested = 3

\* a failed call of a client of the default configuration, which sent the
\* request three times
C23_Witness ==
    /\ GenerationFailed
    /\ "llm_analysis" \notin DOMAIN config
    /\ Len(recommendations.value.requests) = 3

(***************************************************************************)
(* C24                                                                     *)
(***************************************************************************)
\* the documented defaults of the six keys
Documented ==
    [min_review_length |-> 20, max_review_length |-> 1000, min_word_count |-> 3,
     max_features |-> 1500, ngram_range |-> <<1, 3>>, n_clusters |-> 8]

\* the value a key of a section stands for: the configured one, or the
\* documented default when the section lacks the key
Setting(section, key) == IF key \in DOMAIN section THEN section[key] ELSE Documented[key]

\* the feature_extraction section of the clustering section
FeatureConfig ==
    IF "feature_extraction" \in DOMAIN ClusteringConfig
    THEN ClusteringConfig.feature_extraction ELSE EmptyDict

\* review i of the batch passes the three filters at the settings in force
PassesSettings(i) ==
    LET trimmed      == Strip(RawText(i))
        cleaned_text == clean_text(trimmed)
    IN  /\ Len(trimmed) >= Setting(ProcessingConfig, "min_review_length")
        /\ Len(trimmed) <= Setting(ProcessingConfig, "max_review_length")
        /\ Len(cleaned_text) >= Setting(ProcessingConfig, "min_review_length")
        /\ Len(Split(cleaned_text)) >= Setting(ProcessingConfig, "min_word_count")

\* the vectorizer and the model of a returned analysis
FittedVectorizer == analysis.value.value.features.vectorizer

FittedModel == analysis.value.value.clusters.model

FeatureNames == analysis.value.value.features.feature_names

\* C24: when min_review_length, max_review_length, min_word_count,
\* max_features, ngram_range or n_clusters is missing from the configuration
\* the documented default (20, 1000, 3, 1500, unigrams through trigrams, 8)
\* is in force: process_reviews returns, and keeps exactly the reviews that
\* pass the filters at these settings; a returned analysis was made by a
\* vectorizer and a KMeans constructed with these settings; and an analysis
\* fails only with the ValueError of an empty input, of the vectorizer or of
\* a KMeans that got fewer rows than clusters, never because a key is missing.
C24_MissingKeysTakeDefaults ==
    /\ pc # "idle" => processed_data.called
    /\ processed_data.called =>
          \A i \in 1..Len(batch) :
              batch[i].id \in IdsOf(processed_data.value.reviews) <=> PassesSettings(i)
    /\ Clustered =>
          /\ FittedVectorizer.max_features = Setting(FeatureConfig, "max_features")
          /\ FittedVectorizer.ngram_range = Setting(FeatureConfig, "ngram_range")
          /\ FittedModel.n_clusters = Setting(ClusteringConfig, "n_clusters")
          /\ Cardinality(FeatureNames) <= Setting(FeatureConfig, "max_features")
          /\ \A term \in FeatureNames :
                /\ Len(term) >= Setting(FeatureConfig, "ngram_range")[1]
                /\ Len(term) <= Setting(FeatureConfig, "ngram_range")[2]
          /\ RowCount >= Setting(ClusteringConfig, "n_clusters")
    /\ AnalysisFailed =>
          /\ analysis.value.error.type = "ValueError"
          /\ analysis.value.ran = <<"vectorize", "kmeans">>
                => RowCount < Setting(ClusteringConfig, "n_clusters")

\* the pipeline has run under a configuration without any of the keys: of
\* ten reviews eight were kept, they went into eight clusters, and a trigram
\* is among the features
C24_Witness ==
    /\ config = EmptyDict
    /\ Clustered
    /\ Len(batch) = 10 /\ RowCount = 8
    /\ Len(ClusterList) = 8
    /\ FittedModel.n_clusters = 8
    /\ \E term \in FeatureNames : Len(term) = 3
    /\ recommendations.called

(***************************************************************************)
(* C25                                                                     *)
(***************************************************************************)
\* some non-blank line follows a header line of the reply
SomeLineCollected(lines) == \E name \in SectionNames : Following(lines, name) # <<>>

\* C25 as stated: the whole reply comes back under insights only when the
\* reply has no header line; whenever it has one, insights holds only the
\* lines that follow an insights header and never the whole reply.
C25_FallbackOnlyWithoutMarker ==
    (Generated /\ OneReply) =>
        LET lines == StrippedReply
        IN  HasHeader(lines) =>
                /\ Sections.insights = Following(lines, "insights")
                /\ Sections.insights # Reply

\* C25: the whole reply comes back under insights exactly when no non-blank
\* line follows a header line, be it that the reply has no header line or
\* that nothing follows the header lines it has; whenever some non-blank line
\* follows a header line, insights holds only the lines that follow an
\* insights header and never the whole reply.
C25_FallbackWhenNothingCollected ==
    (Generated /\ OneReply) =>
        LET lines == StrippedReply
        IN  IF SomeLineCollected(lines)
            THEN /\ HasHeader(lines)
                 /\ Sections.insights = Following(lines, "insights")
                 /\ Sections.insights # Reply
            ELSE Sections.insights = Reply

\* a reply of header lines and nothing after them has come back whole under
\* insights
C25_Witness ==
    /\ Generated
    /\ OneReply
    /\ HasHeader(StrippedReply)
    /\ ~SomeLineCollected(StrippedReply)
    /\ Reply # <<>>
    /\ Sections.insights = Reply

(***************************************************************************)
(* C28                                                                     *)
(***************************************************************************)
\* discover_apps returned a list of apps
Discovered == discovered.called /\ ~discovered.value.raised

FoundApps == discovered.value.value

\* the keyword list of the category as the configuration holds it after the
\* call, which is the order the keywords are searched in
SearchOrder ==
    IF /\ "categories" \in DOMAIN config
       /\ request.category \in DOMAIN config.categories
       /\ "keywords" \in DOMAIN config.categories[request.category]
    THEN config.categories[request.category].keywords
    ELSE <<request.category>>

\* the hits of the store for the k-th keyword searched, none when the search
\* fails
HitsAt(k) ==
    IF request.store[SearchOrder[k]].failed THEN <<>>
    ELSE request.store[SearchOrder[k]].hits

\* the pairs <<k, p>> of a keyword position and a hit position, and their
\* order: the order the hits are seen in
HitPositions == UNION {{<<k, p>> : p \in 1..Len(HitsAt(k))} : k \in 1..Len(SearchOrder)}

SeenBefore(a, b) == a[1] < b[1] \/ (a[1] = b[1] /\ a[2] < b[2])

\* the number of hits seen before the one at position at
HitsBefore(at) == Cardinality({b \in HitPositions : SeenBefore(b, at)})

\* the hit an app of the result was made of: its title names the keyword and
\* the position
OriginOf(app) ==
    CHOOSE at \in HitPositions :
        /\ SearchOrder[at[1]] = app.name[1]
        /\ at[2] = app.name[2]

\* C28: discover_apps returns at most limit apps, no two of them with the
\* same app_id; every app returned is the first hit seen with its app_id,
\* and the apps are in the order their hits were seen; a search that fails
\* does not end the discovery: every hit with an app_id that is seen while
\* fewer than limit hits were seen is returned, whatever searches failed
\* before it.
C28_FirstSeenUpToLimit ==
    Discovered =>
        /\ Len(FoundApps) <= request.limit
        /\ \A i, j \in 1..Len(FoundApps) :
              i # j => FoundApps[i].app_id # FoundApps[j].app_id
        /\ \A i \in 1..Len(FoundApps) :
              /\ \E at \in HitPositions :
                    /\ SearchOrder[at[1]] = FoundApps[i].name[1]
                    /\ at[2] = FoundApps[i].name[2]
                    /\ HitsAt(at[1])[at[2]].appId = FoundApps[i].app_id
              /\ \A b \in HitPositions :
                    HitsAt(b[1])[b[2]].appId = FoundApps[i].app_id
                    => ~SeenBefore(b, OriginOf(FoundApps[i]))
        /\ \A i, j \in 1..Len(FoundApps) :
              i < j => SeenBefore(OriginOf(FoundApps[i]), OriginOf(FoundApps[j]))
        /\ \A at \in HitPositions :
              (HitsBefore(at) < request.limit /\ HitsAt(at[1])[at[2]].appId # "")
              => \E i \in 1..Len(FoundApps) :
                    FoundApps[i].app_id = HitsAt(at[1])[at[2]].appId

\* discover_apps has returned two apps after the search for the first
\* keyword failed and the searches for two later keywords found the same app
C28_Witness ==
    /\ Discovered
    /\ Len(SearchOrder) = 3
    /\ request.store[SearchOrder[1]].failed
    /\ Len(FoundApps) = 2
    /\ \E a, b \in HitPositions :
          /\ a[1] < b[1]
          /\ HitsAt(a[1])[a[2]].appId = HitsAt(b[1])[b[2]].appId
          /\ HitsAt(a[1])[a[2]].appId = FoundApps[2].app_id

(***************************************************************************)
(* C29                                                                     *)
(***************************************************************************)
\* C29 as stated: no discover_apps, process_reviews or analyze call changes
\* the configuration: after every call the configuration, the keyword list
\* of each category included, equals its value before the call.
C29_ConfigurationUnchanged == [][config' = config]_vars

(***************************************************************************)
(* C27                                                                     *)
(***************************************************************************)
\* the groups the dashboard shows
Groups == displayed.value

\* the review is a member of the cluster with this id
IsMember(review, cluster_id) ==
    \E j \in 1..Len(ClusterList) :
        /\ ClusterList[j].id = cluster_id
        /\ \E m \in 1..Len(ClusterList[j].reviews) :
              ClusterList[j].reviews[m].id = review.id

\* C27 as stated: position i of cluster_labels refers to the review that
\* produced feature row i for every consumer: every review of a cluster's
\* 'reviews' and every review display_cluster_details shows under a cluster
\* is a member of that cluster, also when reviews were dropped during the
\* normalization.
C27_DisplayedAreMembers ==
    /\ Clustered =>
          \A j \in 1..Len(ClusterList) :
              \A m \in 1..Len(ClusterList[j].reviews) :
                  /\ ClusterList[j].reviews[m]
                        = processed_data.value.reviews[ClusterList[j].indices[m] + 1]
                  /\ LabelVector[ClusterList[j].indices[m] + 1] = ClusterList[j].id
    /\ displayed.called =>
          \A g \in 1..Len(Groups) :
              \A m \in 1..Len(Groups[g].cluster_reviews) :
                  IsMember(Groups[g].cluster_reviews[m], Groups[g].cluster_id)

(***************************************************************************)
(* C26                                                                     *)
(***************************************************************************)
\* analyze_category returned its results
Returned == results.called /\ ~results.value.raised

\* analyze_category ended with an error
EndedRaising == results.called /\ results.value.raised

\* the normalization was reached and did not return
NormalizationFailed ==
    pc \notin {"idle", "discovered", "collected"} /\ ~processed_data.called

\* what holds in every state of a run of analyze_category
StagesOrdered ==
    /\ analysis.called => processed_data.called
    /\ recommendations.called => (analysis.called /\ ~analysis.value.raised)
    /\ NormalizationFailed =>
          /\ EndedRaising
          /\ ~analysis.called
          /\ ~recommendations.called
    /\ AnalysisFailed =>
          /\ EndedRaising
          /\ results.value.error = analysis.value.error
          /\ ~recommendations.called
    /\ (recommendations.called /\ recommendations.value.raised) =>
          /\ EndedRaising
          /\ results.value.error = recommendations.value.error
    /\ Returned =>
          /\ processed_data.called
          /\ Clustered
          /\ Generated
          /\ results.value.value.processed_data = processed_data.value
          /\ results.value.value.clusters = analysis.value.value
          /\ results.value.value.recommendations = recommendations.value.value
    /\ results.called <=> pc \in {"raised", "returned"}

\* what holds of every step of a run of analyze_category
StageStep ==
    /\ ~results.called
    /\ processed_data' # processed_data =>
          /\ ~processed_data.called
          /\ UNCHANGED <<analysis, recommendations>>
    /\ analysis' # analysis =>
          /\ processed_data.called /\ ~analysis.called
          /\ UNCHANGED <<processed_data, recommendations>>
    /\ recommendations' # recommendations =>
          /\ analysis.called /\ ~analysis.value.raised /\ ~recommendations.called
          /\ UNCHANGED <<processed_data, analysis>>

\* C26: in every run of analyze_category the stages run in the order
\* normalize, cluster, generate: the clustering starts only after the
\* normalization returned, the generation call is made only after the
\* clustering returned a result, and once a stage fails no later stage runs,
\* the call raises the error of that stage and returns no results.
C26_StagesInOrder == []StagesOrdered /\ [][StageStep]_vars

\* a run in which the normalization dropped a review, the clustering
\* returned two clusters and the generation failed: the call raised
C26_Witness ==
    /\ pc = "raised"
    /\ processed_data.called
    /\ RowCount < Len(batch)
    /\ Clustered
    /\ Len(ClusterList) >= 2
    /\ recommendations.called
    /\ recommendations.value.raised
    /\ EndedRaising

(***************************************************************************)
(* C30                                                                     *)
(***************************************************************************)
\* C30 as stated: in the results of a run of analyze_category that
\* returned, metadata.clusters_found is the number of non-empty clusters of
\* the clustering step, the n_clusters the ClusterAnalyzer reports.
C30_ClustersFoundIsClusterCount ==
    Returned =>
        /\ results.value.value.metadata.clusters_found
              = analysis.value.value.clusters.n_clusters
        /\ results.value.value.metadata.clusters_found = Len(ClusterList)

====
